---------------------------- MODULE Spec2Model ----------------------------
(***************************************************************************)
(* TrendRadar: the per-day storage engine (trendradar/storage/local.py,    *)
(* trendradar/storage/remote.py), its read paths and the new-title         *)
(* detector, modelled as a state machine over the tables of one day-store. *)
(*                                                                         *)
(* One backend instance with its cached connection is modelled.  `conn` is *)
(* the content of the day-store as the cached connection sees it (its own  *)
(* uncommitted writes included); `disk` is what has been committed, which  *)
(* is what any other connection (the query facade) reads.                  *)
(*                                                                         *)
(* Not modelled: the created_at / updated_at / changed_at timestamps and   *)
(* mobile_url (written, never read by a decision), the log output.         *)
(***************************************************************************)
EXTENDS Integers, Sequences, FiniteSets, TLC

(***************************************************************************)
(* Bounds of the model.                                                    *)
(***************************************************************************)
\* total number of item observations handed to save_news_data in one run
MaxObs == 3
\* number of items in the batch handed to detect_new_titles
MaxCur == 2

(***************************************************************************)
(* Values.                                                                 *)
(***************************************************************************)
\* platform ids, in the order SQLite's ORDER BY platform_id yields them
PlatformSeq == <<"weibo", "zhihu">>
Platforms == {PlatformSeq[i] : i \in 1..Len(PlatformSeq)}
Titles == {"A", "B"}
Ranks == {1, 2}

\* A URL is its part before '?' and the names of its query parameters in
\* order; the empty string is the URL with neither.
EmptyUrl == [base |-> "", query |-> <<>>]
UrlHot == [base |-> "https://s.weibo.com/hot", query |-> <<"x">>]
UrlHotRanked == [base |-> "https://s.weibo.com/hot", query |-> <<"band_rank", "x">>]
Urls == {EmptyUrl, UrlHot, UrlHotRanked}

\* HH-MM strings, as the four digits of the zero-padded text ("09-00",
\* "10-00"); Python compares them as text, character by character.
CrawlTimes == {<<0, 9, 0, 0>>, <<1, 0, 0, 0>>}

RECURSIVE StrLess(_, _)
\* a < b on strings (Python's lexicographic str comparison)
StrLess(a, b) ==
    IF a = <<>> THEN b # <<>>
    ELSE IF b = <<>> THEN FALSE
    ELSE IF Head(a) # Head(b) THEN Head(a) < Head(b)
    ELSE StrLess(Tail(a), Tail(b))

StrLeq(a, b) == a = b \/ StrLess(a, b)

PlatformIndex(p) == CHOOSE i \in 1..Len(PlatformSeq) : PlatformSeq[i] = p

\* the items the fetcher may deliver: NewsItem as save_news_data reads it
FeedItems ==
    {x \in [source_id : Platforms, title : Titles, url : Urls, rank : Ranks] :
        /\ (x.rank = 2) <=> (x.url = UrlHotRanked)
        /\ x.source_id = "zhihu" => (x.title = "A" /\ x.url # UrlHotRanked)}

\* data.items is a dict platform -> list: iterating it visits the items
\* platform by platform, so a batch is a sequence in which a platform's
\* items are contiguous
Grouped(s) ==
    \A i, j, k \in 1..Len(s) :
        (i < j /\ j < k /\ s[i].source_id = s[k].source_id)
            => s[j].source_id = s[i].source_id

BatchesUpTo(n) ==
    {s \in UNION {[1..m -> FeedItems] : m \in 1..n} : Grouped(s)}

(***************************************************************************)
(* URL canonicalisation (trendradar/utils/url.py).                         *)
(***************************************************************************)
DropParams(platform_id) ==
    IF platform_id = "weibo" THEN {"band_rank"} ELSE {}

normalize_url(url, platform_id) ==
    IF url = EmptyUrl THEN EmptyUrl
    ELSE [url EXCEPT !.query =
            SelectSeq(@, LAMBDA p : p \notin DropParams(platform_id))]

(***************************************************************************)
(* The day-store.                                                          *)
(***************************************************************************)
EmptyDb ==
    [ platforms |-> {},
      news_items |-> <<>>,
      rank_history |-> <<>>,
      title_changes |-> <<>>,
      crawl_records |-> {},
      crawl_seq |-> 0,
      crawl_source_status |-> {},
      push_records |-> {} ]

VARIABLES
    conn,       \* the day-store as the backend's cached connection sees it
    disk,       \* the committed content of the day-store
    call,       \* the arguments of the last save_news_data call
    ret,        \* what the last save_news_data call returned
    log,        \* every item observation processed so far, with its crawl_time
    atomic,     \* the day-store built from the successful calls alone
    out,        \* the result of the last read operation
    quota       \* item observations the run may still hand to save_news_data

storeVars == <<conn, disk, call, ret, log, atomic, out, quota>>

VARIABLES
    trip,       \* a save, read, save, read round trip: its stage and reads
    bucket,     \* the object store: the object under each key news/<date>.db
    tmp,        \* the remote backend's temp file <temp_dir>/<today>/news.db
    connected,  \* the remote backend holds a cached connection to tmp
    reqs,       \* the last remote call and the object-store requests it sent
    localdir,   \* <local_data_dir>/<date>/news.db as pull_recent_days fills it
    cache,      \* CacheService: _cache and _timestamps, by key
    lock,       \* CacheService._lock: the thread that holds it
    now,        \* time.time()
    clog,       \* the cache operations so far, in the order they took the lock
    registry,   \* the module globals _global_cache and _tools_instances
    threads,    \* the threads of the tool server: where each one is
    data_dir,   \* the local backend's data_dir: the day-folder under each name
    db_connections, \* LocalStorageBackend._db_connections: the folders it has open
    clock,      \* the configured time, in units of six minutes
    dirout,     \* what the last call on the data_dir returned
    backend,    \* the storage backend the process is configured with
    fin,        \* the arguments handed to a function
    fout,       \* what the function returned for them
    instances,  \* several remote backends on one bucket: temp file and connection of each
    serial      \* the day-store one backend alone would hold after the same saves

NoTrip == [stage |-> "idle"]

\* the dates of the run, oldest first; the runs are on the last one
Dates == <<"2025-12-08", "2025-12-09">>
Today == Dates[Len(Dates)]
DateSet == {Dates[i] : i \in 1..Len(Dates)}

NoObject == [absent |-> TRUE]
NoFile == [file |-> "absent"]
\* a file that a broken download left: no bytes, or a part of the object
ZeroBytes == [file |-> "zero"]
Truncated == [file |-> "truncated"]
DbFile(db) == [file |-> "db", db |-> db]

NoReqs == [by |-> "none", sent |-> <<>>]

EmptyBucket == [d \in DateSet |-> NoObject]
EmptyDir == [d \in DateSet |-> NoFile]

remoteVars == <<bucket, tmp, connected, reqs, localdir>>
mcpVars == <<cache, lock, now, clog, registry, threads>>

\* the variables the storage operations leave alone
dirVars == <<data_dir, db_connections, clock, dirout, backend>>
pureVars == <<fin, fout>>
fleetVars == <<instances, serial>>
auxVars == <<dirVars, pureVars, fleetVars>>
svcVars == <<trip, auxVars, remoteVars, mcpVars>>

\* the keys of the cache and the threads of the server
\* ParserService.read_all_titles_for_date's cache key for all platforms
cache_key(date_str) == "read_all_titles:" \o date_str \o ":all"
CacheKeys == {cache_key(d) : d \in DateSet}
Threads == {"t1", "t2"}
NoEntry == [entry |-> "none"]
NoThread == "free"
\* the six tool objects, in the order _get_tools makes them
ToolSeq == <<"data", "analytics", "search", "config", "system", "storage">>
ToolNames == {ToolSeq[i] : i \in 1..Len(ToolSeq)}
\* CacheService objects are numbered as they are made; 0 is Python's None
CacheObjs == 1..Cardinality(Threads)
\* _global_cache, how many CacheService objects were made and the keys each
\* holds; the keys of _tools_instances and how often each tool was made
NoRegistry == [global_cache |-> 0, caches |-> 0,
               entries |-> [o \in CacheObjs |-> {}],
               tools_instances |-> {},
               constructed |-> [n \in ToolNames |-> 0]]
Idle == [pc |-> "idle"]

\* a remote backend that was just constructed, on a bucket in state bkt
RemoteInit(bkt) ==
    /\ bucket = bkt
    /\ tmp = NoFile
    /\ connected = FALSE
    /\ reqs = NoReqs
    /\ localdir = EmptyDir

\* the tool server's process right after the modules are imported
McpInit ==
    /\ cache = [k \in CacheKeys |-> NoEntry]
    /\ lock = NoThread
    /\ now = 0
    /\ clog = <<>>
    /\ registry = NoRegistry
    /\ threads = [t \in Threads |-> Idle]

\* nothing was handed to a function yet
NoArgs == [op |-> "none"]
PureInit ==
    /\ fin = NoArgs
    /\ fout = NoArgs

\* the remote backends of several processes, each just constructed with a
\* temp directory of its own
InstanceNames == {"a", "b"}
NewInstance == [tmp |-> NoFile, connected |-> FALSE]
FleetInit ==
    /\ instances = [i \in InstanceNames |-> NewInstance]
    /\ serial = EmptyDb

\* an empty data_dir, no connection, the clock at its start
NoFolder == [folder |-> "absent"]
MaxDay == 2
\* the names a folder of data_dir can have: YYYY-MM-DD of a day, and for
\* the first day also the legacy YYYY<nian>MM<yue>DD<ri> and the ISO name
\* followed by more text
FolderNames ==
    {n \in [form : {"iso", "legacy"}, day : 0..MaxDay, suffix : {"", "-backup"}] :
        /\ n.form = "legacy" => n.suffix = ""
        /\ (n.form = "legacy" \/ n.suffix # "") => n.day = 0}
\* instants are numbers, six to a day: day * 6 + 2 is 12:00 of the day,
\* day * 6 + 4 is 23:57, day * 6 is 00:00; the clock starts at 12:00 of day 0
DirInitOf(b) ==
    /\ data_dir = [n \in FolderNames |-> NoFolder]
    /\ db_connections = {}
    /\ clock = 2
    /\ dirout = [op |-> "none"]
    /\ backend = b

DirInit == DirInitOf("local")

AuxInit == DirInit /\ PureInit /\ FleetInit

SvcInit ==
    /\ trip = NoTrip
    /\ RemoteInit(EmptyBucket)
    /\ McpInit
    /\ AuxInit

vars == <<storeVars, svcVars>>

NoCall == [items |-> <<>>, crawl_time |-> <<>>, failed_ids |-> {}]
NoOut == [op |-> "none"]

(***************************************************************************)
(* save_news_data                                                          *)
(***************************************************************************)
\* SELECT id, title FROM news_items WHERE url = ? AND platform_id = ?
\* (fetchone): the id of the row found, 0 when there is none
SelectExisting(db, url, platform_id) ==
    LET hits == {i \in 1..Len(db.news_items) :
                    /\ db.news_items[i].url = url
                    /\ db.news_items[i].platform_id = platform_id}
    IN IF hits = {} THEN 0 ELSE CHOOSE i \in hits : \A j \in hits : i <= j

\* UpdateExisting that records a title change without comparing the titles
UpdateExistingAlwaysLogsTitle(db, existing_id, item, crawl_time) ==
    [db EXCEPT
        !.title_changes = Append(@, [news_item_id |-> existing_id,
                                     old_title |-> db.news_items[existing_id].title,
                                     new_title |-> item.title]),
        !.rank_history = Append(@, [news_item_id |-> existing_id,
                                    rank |-> item.rank,
                                    crawl_time |-> crawl_time]),
        !.news_items[existing_id] =
            [@ EXCEPT !.title = item.title,
                      !.rank = item.rank,
                      !.last_crawl_time = crawl_time,
                      !.crawl_count = @ + 1]]

\* UpdateExisting that compares the new title with itself: no change is seen
UpdateExistingNeverLogsTitle(db, existing_id, item, crawl_time) ==
    [db EXCEPT
        !.rank_history = Append(@, [news_item_id |-> existing_id,
                                    rank |-> item.rank,
                                    crawl_time |-> crawl_time]),
        !.news_items[existing_id] =
            [@ EXCEPT !.title = item.title,
                      !.rank = item.rank,
                      !.last_crawl_time = crawl_time,
                      !.crawl_count = @ + 1]]

\* UpdateExisting without the INSERT INTO rank_history
UpdateExistingNoRankHistory(db, existing_id, item, crawl_time) ==
    LET existing_title == db.news_items[existing_id].title
    IN [db EXCEPT
          !.title_changes =
              IF existing_title # item.title
              THEN Append(@, [news_item_id |-> existing_id,
                              old_title |-> existing_title,
                              new_title |-> item.title])
              ELSE @,
          !.news_items[existing_id] =
              [@ EXCEPT !.title = item.title,
                        !.rank = item.rank,
                        !.last_crawl_time = crawl_time,
                        !.crawl_count = @ + 1]]

\* the branch "if existing:" of the item loop
UpdateExisting(db, existing_id, item, crawl_time) ==
    LET existing_title == db.news_items[existing_id].title
        changes ==
            IF existing_title # item.title
            THEN Append(db.title_changes,
                        [news_item_id |-> existing_id,
                         old_title |-> existing_title,
                         new_title |-> item.title])
            ELSE db.title_changes
    IN [db EXCEPT
          !.title_changes = changes,
          !.rank_history = Append(@, [news_item_id |-> existing_id,
                                      rank |-> item.rank,
                                      crawl_time |-> crawl_time]),
          !.news_items[existing_id] =
              [@ EXCEPT !.title = item.title,
                        !.rank = item.rank,
                        !.last_crawl_time = crawl_time,
                        !.crawl_count = @ + 1]]

\* INSERT INTO news_items ... VALUES (..., 1, ...) and the initial rank
InsertNew(db, item, source_id, url, crawl_time) ==
    LET new_id == Len(db.news_items) + 1
    IN [db EXCEPT
          !.news_items = Append(@, [title |-> item.title,
                                    platform_id |-> source_id,
                                    rank |-> item.rank,
                                    url |-> url,
                                    first_crawl_time |-> crawl_time,
                                    last_crawl_time |-> crawl_time,
                                    crawl_count |-> 1]),
          !.rank_history = Append(@, [news_item_id |-> new_id,
                                      rank |-> item.rank,
                                      crawl_time |-> crawl_time])]

\* SaveItem that looks the row up by the raw URL, not the normalized one
SaveItemRawLookup(db, item, crawl_time) ==
    LET source_id == item.source_id
        normalized_url ==
            IF item.url # EmptyUrl THEN normalize_url(item.url, source_id)
            ELSE EmptyUrl
    IN IF normalized_url # EmptyUrl
       THEN LET existing == SelectExisting(db, item.url, source_id)
            IN IF existing # 0
               THEN UpdateExisting(db, existing, item, crawl_time)
               ELSE InsertNew(db, item, source_id, normalized_url, crawl_time)
       ELSE InsertNew(db, item, source_id, EmptyUrl, crawl_time)

\* SaveItem without the "if normalized_url:" test: empty URLs are looked up too
SaveItemMergesEmpty(db, item, crawl_time) ==
    LET source_id == item.source_id
        normalized_url ==
            IF item.url # EmptyUrl THEN normalize_url(item.url, source_id)
            ELSE EmptyUrl
        existing == SelectExisting(db, normalized_url, source_id)
    IN IF existing # 0
       THEN UpdateExisting(db, existing, item, crawl_time)
       ELSE InsertNew(db, item, source_id, normalized_url, crawl_time)

\* the body of "for item in news_list"
SaveItem(db, item, crawl_time) ==
    LET source_id == item.source_id
        normalized_url ==
            IF item.url # EmptyUrl THEN normalize_url(item.url, source_id)
            ELSE EmptyUrl
    IN IF normalized_url # EmptyUrl
       THEN LET existing == SelectExisting(db, normalized_url, source_id)
            IN IF existing # 0
               THEN UpdateExisting(db, existing, item, crawl_time)
               ELSE InsertNew(db, item, source_id, normalized_url, crawl_time)
       ELSE InsertNew(db, item, source_id, EmptyUrl, crawl_time)

RECURSIVE SaveItems(_, _, _)
\* the two nested loops over data.items
SaveItems(db, items, crawl_time) ==
    IF items = <<>> THEN db
    ELSE SaveItems(SaveItem(db, Head(items), crawl_time), Tail(items), crawl_time)

\* upsert of the platforms named by data.id_to_name
SyncPlatforms(db, ids) == [db EXCEPT !.platforms = @ \cup ids]

\* INSERT OR REPLACE INTO crawl_records and the crawl_source_status rows
RecordCrawl(db, items, crawl_time, failed_ids) ==
    LET crawl_record_id == db.crawl_seq + 1
        success_sources == {items[i].source_id : i \in 1..Len(items)}
        kept == {r \in db.crawl_records : r.crawl_time # crawl_time}
        status ==
            {[crawl_record_id |-> crawl_record_id, platform_id |-> p,
              status |-> IF p \in failed_ids THEN "failed" ELSE "success"] :
                p \in success_sources \cup failed_ids}
    IN [db EXCEPT
          !.crawl_records = kept \cup {[id |-> crawl_record_id,
                                        crawl_time |-> crawl_time,
                                        total_items |-> Len(items)]},
          !.crawl_seq = crawl_record_id,
          !.platforms = @ \cup failed_ids,
          !.crawl_source_status = @ \cup status]

\* everything save_news_data executes on the connection before conn.commit()
SaveStatements(db, data) ==
    RecordCrawl(
        SaveItems(SyncPlatforms(db, {data.items[i].source_id :
                                        i \in 1..Len(data.items)}),
                  data.items, data.crawl_time),
        data.items, data.crawl_time, data.failed_ids)

\* NewsData as convert_crawl_results_to_news_data builds it from a crawl of
\* all platforms: the platforms that delivered nothing are the failed ones
NewsDataOf(items, crawl_time) ==
    [items |-> items,
     crawl_time |-> crawl_time,
     failed_ids |-> Platforms \ {items[i].source_id : i \in 1..Len(items)}]

Calls(n) ==
    {NewsDataOf(items, t) : items \in BatchesUpTo(n), t \in CrawlTimes}

Init ==
    /\ conn = EmptyDb
    /\ disk = EmptyDb
    /\ call = NoCall
    /\ ret = TRUE
    /\ log = <<>>
    /\ atomic = EmptyDb
    /\ out = NoOut
    /\ quota = MaxObs
    /\ SvcInit

Logged(data) ==
    [i \in 1..Len(data.items) |->
        [item |-> data.items[i], crawl_time |-> data.crawl_time]]

\* save_news_data(data) runs to conn.commit() and returns True
SaveNewsData ==
    /\ quota > 0
    /\ out = NoOut
    /\ \E data \in Calls(quota) :
        /\ quota' = quota - Len(data.items)
        /\ conn' = SaveStatements(conn, data)
        /\ disk' = conn'
        /\ call' = data
        /\ ret' = TRUE
        /\ log' = log \o Logged(data)
        /\ atomic' = SaveStatements(atomic, data)
    /\ out' = out
    /\ UNCHANGED svcVars

\* save_news_data(data) whose conn.commit() raises (sqlite3.OperationalError:
\* database is locked, a reader of another connection holding the file): the
\* outer "except Exception" returns False; nothing rolls the transaction back
SaveNewsDataCommitFails ==
    /\ quota > 0
    /\ out = NoOut
    /\ \E data \in Calls(quota) :
        /\ quota' = quota - Len(data.items)
        /\ conn' = SaveStatements(conn, data)
        /\ disk' = disk
        /\ call' = data
        /\ ret' = FALSE
        /\ log' = log \o Logged(data)
        /\ atomic' = atomic
    /\ out' = out
    /\ UNCHANGED svcVars

(***************************************************************************)
(* Read operations.                                                        *)
(***************************************************************************)
None == [none |-> TRUE]

\* the numbers of 1..n that satisfy Test, ascending
Indices(n, Test(_)) == SelectSeq([k \in 1..n |-> k], Test)

RECURSIVE Dedup(_, _)
\* "if rank not in rank_history_map[news_id]: append(rank)"
Dedup(seen, ranks) ==
    IF ranks = <<>> THEN seen
    ELSE Dedup(IF \E k \in 1..Len(seen) : seen[k] = Head(ranks)
               THEN seen ELSE Append(seen, Head(ranks)),
               Tail(ranks))

\* SELECT news_item_id, rank FROM rank_history ... ORDER BY news_item_id,
\* crawl_time: the ranks recorded for one news item, by crawl_time (rows of
\* equal crawl_time in insertion order)
RankRows(db, news_id) ==
    LET rh == db.rank_history
        mine == Indices(Len(rh), LAMBDA k : rh[k].news_item_id = news_id)
        sorted == SortSeq(mine, LAMBDA a, b :
                      \/ StrLess(rh[a].crawl_time, rh[b].crawl_time)
                      \/ (rh[a].crawl_time = rh[b].crawl_time /\ a < b))
    IN [k \in 1..Len(sorted) |-> rh[sorted[k]].rank]

\* RankHistoryMap that appends every rank_history row
RankHistoryMapNoDedup(db, news_id) ==
    LET ranks == RankRows(db, news_id)
    IN IF ranks = <<>> THEN <<db.news_items[news_id].rank>> ELSE ranks

\* rank_history_map.get(news_id, [row rank]) as the storage backends build it
RankHistoryMap(db, news_id) ==
    LET ranks == Dedup(<<>>, RankRows(db, news_id))
    IN IF ranks = <<>> THEN <<db.news_items[news_id].rank>> ELSE ranks

\* the NewsItem a backend read builds from row news_id
NewsItemOf(db, news_id, ranks) ==
    LET row == db.news_items[news_id]
    IN [title |-> row.title,
        source_id |-> row.platform_id,
        rank |-> row.rank,
        url |-> row.url,
        ranks |-> ranks,
        first_time |-> row.first_crawl_time,
        last_time |-> row.last_crawl_time,
        count |-> row.crawl_count]

\* SELECT crawl_time FROM crawl_records ORDER BY crawl_time DESC LIMIT 1
LatestCrawlTime(db) ==
    CHOOSE t \in {r.crawl_time : r \in db.crawl_records} :
        \A r \in db.crawl_records : StrLeq(r.crawl_time, t)

\* crawl_source_status JOIN crawl_records ... WHERE status = 'failed'
FailedIds(db, records) ==
    {s.platform_id : s \in {x \in db.crawl_source_status :
        /\ x.status = "failed"
        /\ \E r \in records : r.id = x.crawl_record_id}}

\* the ids of the rows get_today_all_data selects, ORDER BY platform_id,
\* last_crawl_time (rows of equal key in id order)
TodayRows(db) ==
    SortSeq([k \in 1..Len(db.news_items) |-> k], LAMBDA a, b :
        LET ra == db.news_items[a]
            rb == db.news_items[b]
        IN \/ PlatformIndex(ra.platform_id) < PlatformIndex(rb.platform_id)
           \/ /\ ra.platform_id = rb.platform_id
              /\ \/ StrLess(ra.last_crawl_time, rb.last_crawl_time)
                 \/ (ra.last_crawl_time = rb.last_crawl_time /\ a < b))

\* get_today_all_data: the selected rows, each with its rank history
get_today_all_data(db) ==
    LET n == Len(db.news_items)
        rows == TodayRows(db)
    IN IF n = 0 THEN None
       ELSE [items |-> [k \in 1..n |->
                          NewsItemOf(db, rows[k], RankHistoryMap(db, rows[k]))],
             crawl_time |-> IF db.crawl_records = {} THEN <<>>
                            ELSE LatestCrawlTime(db),
             failed_ids |-> FailedIds(db, db.crawl_records)]

\* the rows WHERE last_crawl_time = latest_time, in id order
LatestRows(db) ==
    Indices(Len(db.news_items),
            LAMBDA k : db.news_items[k].last_crawl_time = LatestCrawlTime(db))

\* LocalStorageBackend.get_latest_crawl_data
get_latest_crawl_data(db) ==
    IF db.crawl_records = {} THEN None
    ELSE LET rows == LatestRows(db)
         IN IF rows = <<>> THEN None
            ELSE [items |-> [k \in 1..Len(rows) |->
                               NewsItemOf(db, rows[k], RankHistoryMap(db, rows[k]))],
                  crawl_time |-> LatestCrawlTime(db),
                  failed_ids |-> FailedIds(db,
                      {r \in db.crawl_records : r.crawl_time = LatestCrawlTime(db)})]

\* RemoteStorageBackend.get_latest_crawl_data: ranks=[row rank]
remote_get_latest_crawl_data(db) ==
    IF db.crawl_records = {} THEN None
    ELSE LET rows == LatestRows(db)
         IN IF rows = <<>> THEN None
            ELSE [items |-> [k \in 1..Len(rows) |->
                               NewsItemOf(db, rows[k], <<db.news_items[rows[k]].rank>>)],
                  crawl_time |-> LatestCrawlTime(db),
                  failed_ids |-> FailedIds(db,
                      {r \in db.crawl_records : r.crawl_time = LatestCrawlTime(db)})]

\* ParserService._read_from_sqlite with platform_ids = None: all_titles as
\* the entries all_titles[platform_id][title]; a later row of the same
\* platform and title overwrites an earlier one
read_from_sqlite(db) ==
    LET n == Len(db.news_items)
        last == {k \in 1..n : \A j \in 1..n :
                    (/\ db.news_items[j].platform_id = db.news_items[k].platform_id
                     /\ db.news_items[j].title = db.news_items[k].title) => j <= k}
    IN IF n = 0 THEN None
       ELSE [all_titles |->
               {LET ranks == RankRows(db, k)
                IN NewsItemOf(db, k, IF ranks = <<>>
                                     THEN <<db.news_items[k].rank>> ELSE ranks) :
                    k \in last},
             crawl_times |-> {r.crawl_time : r \in db.crawl_records}]

GetTodayAllData ==
    /\ out = NoOut
    /\ out' = [op |-> "get_today_all_data", data |-> get_today_all_data(conn)]
    /\ UNCHANGED <<conn, disk, call, ret, log, atomic, quota>>
    /\ UNCHANGED svcVars

GetLatestCrawlData ==
    /\ out = NoOut
    /\ out' = [op |-> "get_latest_crawl_data", data |-> get_latest_crawl_data(conn)]
    /\ UNCHANGED <<conn, disk, call, ret, log, atomic, quota>>
    /\ UNCHANGED svcVars

RemoteGetLatestCrawlData ==
    /\ out = NoOut
    /\ out' = [op |-> "remote_get_latest_crawl_data",
               data |-> remote_get_latest_crawl_data(conn)]
    /\ UNCHANGED <<conn, disk, call, ret, log, atomic, quota>>
    /\ UNCHANGED svcVars

\* the facade opens a connection of its own: it reads what is committed
ReadAllTitlesForDate ==
    /\ out = NoOut
    /\ out' = [op |-> "read_all_titles_for_date", data |-> read_from_sqlite(disk)]
    /\ UNCHANGED <<conn, disk, call, ret, log, atomic, quota>>
    /\ UNCHANGED svcVars

\* the caller is done with the result of the read it made
Return ==
    /\ out # NoOut
    /\ out' = NoOut
    /\ UNCHANGED <<conn, disk, call, ret, log, atomic, quota>>
    /\ UNCHANGED svcVars

NextRead ==
    \/ SaveNewsData
    \/ GetTodayAllData
    \/ GetLatestCrawlData
    \/ RemoteGetLatestCrawlData
    \/ ReadAllTitlesForDate
    \/ Return

SpecRead == Init /\ [][NextRead]_vars

(***************************************************************************)
(* detect_new_titles                                                       *)
(***************************************************************************)
\* the batches handed to detect_new_titles: of an item only source_id and
\* title are read
CurItems == [source_id : Platforms, title : Titles]

CurrentData(n) ==
    [items : {s \in UNION {[1..m -> CurItems] : m \in 1..n} : Grouped(s)},
     crawl_time : CrawlTimes]

\* every (source_id, title) of the batch
AllTitles(current_data) ==
    {[source_id |-> current_data.items[i].source_id,
      title |-> current_data.items[i].title] : i \in 1..Len(current_data.items)}

\* HistoricalTitles with first_time <= current_time
HistoricalTitlesUpToNow(historical_data, source_id, current_time) ==
    {historical_data.items[k].title : k \in
        {j \in 1..Len(historical_data.items) :
            /\ historical_data.items[j].source_id = source_id
            /\ StrLeq(historical_data.items[j].first_time, current_time)}}

\* historical_titles[source_id]: the titles of the stored items of the
\* platform whose first_time < current_time
HistoricalTitles(historical_data, source_id, current_time) ==
    {historical_data.items[k].title : k \in
        {j \in 1..Len(historical_data.items) :
            /\ historical_data.items[j].source_id = source_id
            /\ StrLess(historical_data.items[j].first_time, current_time)}}

\* the result {source_id: {title: item}} as its set of (source_id, title)
detect_new_titles(db, current_data) ==
    LET historical_data == get_today_all_data(db)
        current_time == current_data.crawl_time
    IN IF historical_data = None
       THEN AllTitles(current_data)
       ELSE IF \A p \in Platforms :
                 HistoricalTitles(historical_data, p, current_time) = {}
            THEN {}
            ELSE {x \in AllTitles(current_data) :
                    x.title \notin HistoricalTitles(historical_data, x.source_id,
                                                    current_time)}

DetectNewTitles ==
    /\ out = NoOut
    /\ \E current_data \in CurrentData(MaxCur) :
        out' = [op |-> "detect_new_titles",
                current_data |-> current_data,
                data |-> detect_new_titles(conn, current_data)]
    /\ UNCHANGED <<conn, disk, call, ret, log, atomic, quota>>
    /\ UNCHANGED svcVars

InitDetect ==
    /\ conn = EmptyDb
    /\ disk = EmptyDb
    /\ call = NoCall
    /\ ret = TRUE
    /\ log = <<>>
    /\ atomic = EmptyDb
    /\ out = NoOut
    /\ quota = MaxObs - 1
    /\ SvcInit

NextDetect ==
    \/ SaveNewsData
    \/ DetectNewTitles
    \/ Return

SpecDetect == InitDetect /\ [][NextDetect]_vars

\* the runs in which every commit succeeds
Next == SaveNewsData

Spec == Init /\ [][Next]_vars

\* the runs in which a commit may fail
NextFault ==
    \/ SaveNewsData
    \/ SaveNewsDataCommitFails

SpecFault == Init /\ [][NextFault]_vars

(***************************************************************************)
(* The round trip save, read, save, read of one batch on a day-store that  *)
(* may hold earlier batches.                                               *)
(***************************************************************************)
\* get_today_all_data after the save of `call` returned True
TripRead ==
    /\ trip.stage = "idle"
    /\ call # NoCall
    /\ trip' = [stage |-> "read", rows |-> TodayRows(conn),
                first |-> get_today_all_data(conn)]
    /\ UNCHANGED <<storeVars, remoteVars, mcpVars, auxVars>>

\* save_news_data of the same NewsData once more
TripSaveAgain ==
    /\ trip.stage = "read"
    /\ conn' = SaveStatements(conn, call)
    /\ disk' = conn'
    /\ log' = log \o Logged(call)
    /\ atomic' = SaveStatements(atomic, call)
    /\ trip' = [trip EXCEPT !.stage = "saved"]
    /\ UNCHANGED <<call, ret, out, quota, remoteVars, mcpVars, auxVars>>

\* get_today_all_data after the second save
TripReadAgain ==
    /\ trip.stage = "saved"
    /\ trip' = [stage |-> "done", rows |-> trip.rows, first |-> trip.first,
                rows2 |-> TodayRows(conn), second |-> get_today_all_data(conn)]
    /\ UNCHANGED <<storeVars, remoteVars, mcpVars, auxVars>>

\* the batches saved before the round trip starts
TripSaveNewsData ==
    /\ trip.stage = "idle"
    /\ SaveNewsData

NextTrip ==
    \/ TripSaveNewsData
    \/ TripRead
    \/ TripSaveAgain
    \/ TripReadAgain

SpecTrip == Init /\ [][NextTrip]_vars

(***************************************************************************)
(* The remote backend: the day-store is a temp file that is downloaded     *)
(* from the object store when the connection is opened and uploaded after  *)
(* every save.  `conn` and `disk` are the connection to and the content of *)
(* the temp file when tmp is a database.                                   *)
(***************************************************************************)
\* how a request ends: a response arrives or the transport fails
Net == {"ok", "error"}

\* the response to head_object: 200, 404, or an error without a response
HeadObject(bkt, date, net) ==
    IF net = "error" THEN "error"
    ELSE IF bkt[date] # NoObject THEN "200" ELSE "404"

\* _check_object_exists: True on a response, False on 404 and on every
\* other ClientError or Exception
check_object_exists(resp) == resp = "200"

Req(op, resp) == [op |-> op, resp |-> resp]

\* what a get_object that fails leaves at the local path: nothing when the
\* request itself raised, an empty or partial file when the body broke off
BrokenDownloads == {NoFile, ZeroBytes, Truncated}

\* _download_sqlite that writes only the first chunk of the body
download_sqlite_first_chunk(bkt, date, head, get, broken) ==
    LET resp == HeadObject(bkt, date, head)
    IN IF ~check_object_exists(resp)
       THEN [file |-> NoFile, raised |-> FALSE, reqs |-> <<Req("HEAD", resp)>>]
       ELSE IF get = "ok"
            THEN [file |-> IF bkt[date].news_items = <<>> THEN DbFile(bkt[date])
                           ELSE Truncated,
                  raised |-> FALSE,
                  reqs |-> <<Req("HEAD", resp), Req("GET", "200")>>]
            ELSE [file |-> broken, raised |-> TRUE,
                  reqs |-> <<Req("HEAD", resp), Req("GET", "error")>>]

\* _download_sqlite: HEAD, then GET into the local path.  raised: the GET
\* failed with something else than 404 and the exception is re-raised
download_sqlite(bkt, date, head, get, broken) ==
    LET resp == HeadObject(bkt, date, head)
    IN IF ~check_object_exists(resp)
       THEN [file |-> NoFile, raised |-> FALSE, reqs |-> <<Req("HEAD", resp)>>]
       ELSE IF get = "ok"
            THEN [file |-> DbFile(bkt[date]), raised |-> FALSE,
                  reqs |-> <<Req("HEAD", resp), Req("GET", "200")>>]
            ELSE [file |-> broken, raised |-> TRUE,
                  reqs |-> <<Req("HEAD", resp), Req("GET", "error")>>]

\* _upload_sqlite that returns True as soon as put_object returned
upload_sqlite_unverified(bkt, date, db, put, head) ==
    IF put = "error"
    THEN [bucket |-> bkt, ok |-> FALSE, reqs |-> <<Req("PUT", "error")>>]
    ELSE [bucket |-> [bkt EXCEPT ![date] = db], ok |-> TRUE,
          reqs |-> <<Req("PUT", "200"), Req("HEAD", head)>>]

\* _upload_sqlite: PUT the bytes of the local file, then HEAD the key;
\* head is the response to that HEAD
upload_sqlite(bkt, date, db, put, head) ==
    IF put = "error"
    THEN [bucket |-> bkt, ok |-> FALSE, reqs |-> <<Req("PUT", "error")>>]
    ELSE [bucket |-> [bkt EXCEPT ![date] = db],
          ok |-> check_object_exists(head),
          reqs |-> <<Req("PUT", "200"), Req("HEAD", head)>>]

\* the responses a HEAD right after a PUT of the key can get
HeadAfterPut == {"200", "404", "error"}

\* _get_connection of a backend without cached connection: download when
\* the temp file is missing, then sqlite3.connect and _init_tables.
\* A file of zero bytes opens as an empty database, a partial file raises.
get_connection(bkt, file, head, get, broken) ==
    LET dl == IF file = NoFile THEN download_sqlite(bkt, Today, head, get, broken)
              ELSE [file |-> file, raised |-> FALSE, reqs |-> <<>>]
    IN IF dl.raised \/ dl.file = Truncated
       THEN [file |-> dl.file, raised |-> TRUE, reqs |-> dl.reqs]
       ELSE [file |-> IF dl.file.file = "db" THEN dl.file ELSE DbFile(EmptyDb),
             raised |-> FALSE, reqs |-> dl.reqs]

\* the ways the requests of a download can end: the GET is sent only after
\* a HEAD that got a response, and leaves a broken file only when it fails
DownloadOutcomes ==
    {o \in [head : Net, get : Net, broken : BrokenDownloads] :
        /\ o.head = "error" => o.get = "ok"
        /\ o.get = "ok" => o.broken = NoFile}

\* the ways the requests of an upload can end: the HEAD is sent only after
\* a PUT that succeeded
UploadOutcomes ==
    {o \in [put : Net, verify : HeadAfterPut] :
        o.put = "error" => o.verify = "200"}

\* every request gets its response
DownloadOk == [head |-> "ok", get |-> "ok", broken |-> NoFile]
UploadOk == [put |-> "ok", verify |-> "200"]

\* RemoteStorageBackend.save_news_data(data) in an environment where the
\* requests end as DL and UL allow
RemoteSave(DL, UL) ==
    /\ quota > 0
    /\ out = NoOut
    /\ \E data \in Calls(quota),
          dl \in IF connected \/ tmp # NoFile THEN {DownloadOk} ELSE DL,
          ul \in UL :
        LET head == dl.head
            get == dl.get
            broken == dl.broken
            put == ul.put
            verify == ul.verify
            gc == IF connected
                  THEN [file |-> tmp, raised |-> FALSE, reqs |-> <<>>]
                  ELSE get_connection(bucket, tmp, head, get, broken)
        IN /\ quota' = quota - Len(data.items)
           /\ call' = data
           /\ IF gc.raised
              THEN /\ tmp' = gc.file
                   /\ reqs' = [by |-> "save_news_data", sent |-> gc.reqs]
                   /\ ret' = FALSE
                   /\ UNCHANGED <<conn, disk, log, bucket, connected>>
              ELSE LET db == SaveStatements(IF connected THEN conn ELSE gc.file.db,
                                            data)
                       up == upload_sqlite(bucket, Today, db, put, verify)
                   IN /\ conn' = db
                      /\ disk' = db
                      /\ tmp' = DbFile(db)
                      /\ connected' = TRUE
                      /\ log' = log \o Logged(data)
                      /\ bucket' = up.bucket
                      /\ reqs' = [by |-> "save_news_data", sent |-> gc.reqs \o up.reqs]
                      /\ ret' = up.ok
    /\ UNCHANGED <<atomic, out, trip, auxVars, localdir, mcpVars>>

\* save_news_data whose requests may fail
RemoteSaveNewsData == RemoteSave(DownloadOutcomes, UploadOutcomes)

\* save_news_data whose requests all succeed
RemoteSaveNewsDataOk == RemoteSave({DownloadOk}, {UploadOk})

\* the bucket before the first run of the day: empty, or holding the
\* day-store of the day before
InitRemote ==
    /\ conn = EmptyDb
    /\ disk = EmptyDb
    /\ call = NoCall
    /\ ret = TRUE
    /\ log = <<>>
    /\ atomic = EmptyDb
    /\ out = NoOut
    /\ quota = MaxObs - 1
    /\ trip = NoTrip
    /\ \E bkt \in {EmptyBucket, [EmptyBucket EXCEPT ![Dates[1]] = EmptyDb]} :
          RemoteInit(bkt)
    /\ McpInit
    /\ AuxInit

\* RemoteStorageBackend.cleanup closes the connection and removes the temp
\* directory; the next run of the day starts a backend with a new one
RemoteCleanup ==
    /\ out = NoOut
    /\ connected \/ tmp # NoFile
    /\ conn' = EmptyDb
    /\ disk' = EmptyDb
    /\ tmp' = NoFile
    /\ connected' = FALSE
    /\ reqs' = NoReqs
    /\ call' = NoCall
    /\ UNCHANGED <<ret, log, atomic, out, quota, trip, auxVars, bucket, localdir, mcpVars>>

\* list_remote_dates: the dates of the keys news/<date>.db, newest first;
\* an empty list when the listing fails
list_remote_dates(bkt, net) ==
    IF net = "error" THEN <<>>
    ELSE LET present == SelectSeq(Dates, LAMBDA d : bkt[d] # NoObject)
         IN [k \in 1..Len(present) |-> present[Len(present) + 1 - k]]

ListRemote(N) ==
    /\ out = NoOut
    /\ \E net \in N :
        out' = [op |-> "list_remote_dates", net |-> net,
                data |-> list_remote_dates(bucket, net)]
    /\ UNCHANGED <<conn, disk, call, ret, log, atomic, quota>>
    /\ UNCHANGED svcVars

ListRemoteDates == ListRemote({"ok"})

\* the date pull_recent_days looks at in round i of its loop: now - i days
DateBack(i) == Dates[Len(Dates) - i]

\* a round that downloads although the local news.db exists
pull_one_overwrite(st, bkt, date, o) ==
    LET resp == HeadObject(bkt, date, o.head)
    IN IF ~check_object_exists(resp)
       THEN [st EXCEPT !.reqs = @ \o <<Req("HEAD", resp)>>]
       ELSE IF o.get = "ok"
            THEN [dir |-> [st.dir EXCEPT ![date] = DbFile(bkt[date])],
                  count |-> st.count + 1,
                  reqs |-> st.reqs \o <<Req("HEAD", resp), Req("GET", "200")>>]
            ELSE [dir |-> [st.dir EXCEPT ![date] = o.broken],
                  count |-> st.count,
                  reqs |-> st.reqs \o <<Req("HEAD", resp), Req("GET", "error")>>]

\* one round of the loop of pull_recent_days: skip a date whose local
\* news.db exists or whose object HEAD does not find, else GET it; a GET
\* that fails is logged and leaves what it had written
pull_one(st, bkt, date, o) ==
    IF st.dir[date] # NoFile THEN st
    ELSE LET resp == HeadObject(bkt, date, o.head)
         IN IF ~check_object_exists(resp)
            THEN [st EXCEPT !.reqs = @ \o <<Req("HEAD", resp)>>]
            ELSE IF o.get = "ok"
                 THEN [dir |-> [st.dir EXCEPT ![date] = DbFile(bkt[date])],
                       count |-> st.count + 1,
                       reqs |-> st.reqs \o <<Req("HEAD", resp), Req("GET", "200")>>]
                 ELSE [dir |-> [st.dir EXCEPT ![date] = o.broken],
                       count |-> st.count,
                       reqs |-> st.reqs \o <<Req("HEAD", resp), Req("GET", "error")>>]

RECURSIVE pull_rounds(_, _, _, _, _)
\* rounds i .. days - 1 of the loop
pull_rounds(st, bkt, i, days, outs) ==
    IF i >= days THEN st
    ELSE pull_rounds(pull_one(st, bkt, DateBack(i), outs[DateBack(i)]),
                     bkt, i + 1, days, outs)

\* pull_recent_days(days, local_data_dir)
pull_recent_days(dir, bkt, days, outs) ==
    IF days <= 0 THEN [dir |-> dir, count |-> 0, reqs |-> <<>>]
    ELSE pull_rounds([dir |-> dir, count |-> 0, reqs |-> <<>>], bkt, 0, days, outs)

PullRecent(DL) ==
    /\ out = NoOut
    /\ \E days \in 0..Len(Dates), outs \in [DateSet -> DL] :
        LET r == pull_recent_days(localdir, bucket, days, outs)
        IN /\ \A d \in DateSet :
                 (\A i \in 0..(days - 1) : DateBack(i) # d) => outs[d] = DownloadOk
           /\ localdir' = r.dir
           /\ reqs' = [by |-> "pull_recent_days", sent |-> r.reqs]
           /\ out' = [op |-> "pull_recent_days", days |-> days,
                      before |-> localdir, data |-> r.count]
    /\ UNCHANGED <<conn, disk, call, ret, log, atomic, quota>>
    /\ UNCHANGED <<trip, auxVars, bucket, tmp, connected, mcpVars>>

PullRecentDays == PullRecent({DownloadOk})

\* get_today_all_data of a LocalStorageBackend on local_data_dir: None when
\* news.db does not exist or cannot be read, else what the file holds
local_get_today_all_data(file) ==
    IF file.file = "db" THEN get_today_all_data(file.db) ELSE None

PulledGetTodayAllData ==
    /\ out = NoOut
    /\ out' = [op |-> "pulled_get_today_all_data",
               data |-> local_get_today_all_data(localdir[Today])]
    /\ UNCHANGED <<conn, disk, call, ret, log, atomic, quota>>
    /\ UNCHANGED svcVars

\* RemoteStorageBackend.get_today_all_data: _get_connection, which
\* downloads the day for a backend that has no temp file yet, then the same
\* queries as the local backend; None on any exception
RemoteGetToday(DL) ==
    /\ out = NoOut
    /\ \E dl \in IF connected \/ tmp # NoFile THEN {DownloadOk} ELSE DL :
        LET gc == IF connected
                  THEN [file |-> tmp, raised |-> FALSE, reqs |-> <<>>]
                  ELSE get_connection(bucket, tmp, dl.head, dl.get, dl.broken)
        IN /\ tmp' = gc.file
           /\ reqs' = [by |-> "get_today_all_data", sent |-> gc.reqs]
           /\ IF gc.raised
              THEN /\ out' = [op |-> "remote_get_today_all_data", data |-> None]
                   /\ UNCHANGED <<conn, disk, connected>>
              ELSE /\ conn' = IF connected THEN conn ELSE gc.file.db
                   /\ disk' = IF connected THEN disk ELSE gc.file.db
                   /\ connected' = TRUE
                   /\ out' = [op |-> "remote_get_today_all_data",
                              data |-> get_today_all_data(conn')]
    /\ UNCHANGED <<call, ret, log, atomic, quota, trip, auxVars, bucket, localdir, mcpVars>>

RemoteGetTodayAllData == RemoteGetToday({DownloadOk})

NextRemote ==
    \/ RemoteSaveNewsData
    \/ RemoteCleanup

InitPull ==
    /\ conn = EmptyDb
    /\ disk = EmptyDb
    /\ call = NoCall
    /\ ret = TRUE
    /\ log = <<>>
    /\ atomic = EmptyDb
    /\ out = NoOut
    /\ quota = MaxObs - 2
    /\ trip = NoTrip
    /\ \E bkt \in {EmptyBucket, [EmptyBucket EXCEPT ![Dates[1]] = EmptyDb]} :
          RemoteInit(bkt)
    /\ McpInit
    /\ AuxInit

\* the round trip through the object store when every request succeeds
NextPull ==
    \/ RemoteSaveNewsDataOk
    \/ RemoteCleanup
    \/ ListRemoteDates
    \/ PullRecentDays
    \/ PulledGetTodayAllData
    \/ RemoteGetTodayAllData
    \/ Return

SpecPull == InitPull /\ [][NextPull]_vars

SpecRemote == InitRemote /\ [][NextRemote]_vars

(***************************************************************************)
(* record_push and cleanup, and the runs of one day in which a backend is  *)
(* used, closed and opened again.                                          *)
(***************************************************************************)
ReportTypes == {"daily", "current"}

\* INSERT INTO push_records ... ON CONFLICT(date) DO UPDATE: the day-store
\* of a date holds the row of that date
PushStatement(db, report_type) ==
    [db EXCEPT !.push_records = {[pushed |-> 1, report_type |-> report_type]}]

\* record_push(report_type) runs to conn.commit() on the cached connection,
\* which commits whatever the connection holds
RecordPush ==
    /\ out = NoOut
    /\ \E report_type \in ReportTypes :
        /\ conn.push_records # {[pushed |-> 1, report_type |-> report_type]}
        /\ conn' = PushStatement(conn, report_type)
        /\ disk' = conn'
        /\ atomic' = PushStatement(atomic, report_type)
    /\ UNCHANGED <<call, ret, log, out, quota>>
    /\ UNCHANGED svcVars

\* cleanup() closes the cached connection (sqlite3 drops what it had not
\* committed); the next operation, of this backend or of the next run of
\* the day, connects again and sees the committed content
Cleanup ==
    /\ out = NoOut
    /\ conn # disk
    /\ conn' = disk
    /\ UNCHANGED <<disk, call, ret, log, atomic, out, quota>>
    /\ UNCHANGED svcVars

InitView ==
    /\ conn = EmptyDb
    /\ disk = EmptyDb
    /\ call = NoCall
    /\ ret = TRUE
    /\ log = <<>>
    /\ atomic = EmptyDb
    /\ out = NoOut
    /\ quota = MaxObs - 1
    /\ SvcInit

NextView ==
    \/ SaveNewsData
    \/ SaveNewsDataCommitFails
    \/ RecordPush
    \/ Cleanup
    \/ GetTodayAllData
    \/ Return

SpecView == InitView /\ [][NextView]_vars

(***************************************************************************)
(* What the claims speak of, read off the log of observations and the      *)
(* tables.                                                                 *)
(***************************************************************************)
\* the canonical URL of the i-th logged observation
CanonicalUrl(i) == normalize_url(log[i].item.url, log[i].item.source_id)

\* observations i and j are of the same platform and non-empty canonical URL
SameKey(i, j) ==
    /\ log[i].item.source_id = log[j].item.source_id
    /\ CanonicalUrl(i) # EmptyUrl
    /\ CanonicalUrl(i) = CanonicalUrl(j)

\* the observations of the key of observation i
KeyObs(i) == {j \in 1..Len(log) : SameKey(i, j)}

\* the observation of the same key processed last before observation i; 0 if none
PrevObs(i) ==
    LET before == {j \in KeyObs(i) : j < i}
    IN IF before = {} THEN 0 ELSE CHOOSE j \in before : \A k \in before : k <= j

\* the ids of the rows of db that hold the key of observation i
KeyRows(db, i) ==
    {r \in 1..Len(db.news_items) :
        /\ db.news_items[r].platform_id = log[i].item.source_id
        /\ db.news_items[r].url = CanonicalUrl(i)}

RankRowCount(db, r) ==
    Cardinality({k \in 1..Len(db.rank_history) : db.rank_history[k].news_item_id = r})

\* C1: after any sequence of save_news_data calls no two news_items rows
\* hold the same platform_id and the same non-empty URL (in the connection's
\* view and on disk), and every observation with a non-empty canonical URL
\* was merged into the one row of its key: that row exists and its
\* crawl_count is the number of observations of the key, same-batch
\* occurrences included.
C1_UniqueCanonicalUrl ==
    /\ \A db \in {conn, disk} : \A a, b \in 1..Len(db.news_items) :
          (/\ a # b
           /\ db.news_items[a].platform_id = db.news_items[b].platform_id
           /\ db.news_items[a].url # EmptyUrl)
              => db.news_items[a].url # db.news_items[b].url
    /\ \A i \in 1..Len(log) :
          CanonicalUrl(i) # EmptyUrl =>
              /\ Cardinality(KeyRows(conn, i)) = 1
              /\ \A r \in KeyRows(conn, i) :
                    conn.news_items[r].crawl_count = Cardinality(KeyObs(i))

\* one batch held the same platform and canonical URL twice, under two raw
\* URLs, and the day-store holds one row for them
C1_Witness ==
    /\ \E a, b \in 1..Len(call.items) :
          /\ a < b
          /\ call.items[a].source_id = call.items[b].source_id
          /\ call.items[a].url = UrlHot
          /\ call.items[b].url = UrlHotRanked
          /\ normalize_url(UrlHotRanked, call.items[b].source_id) = UrlHot
    /\ \E r \in 1..Len(conn.news_items) : conn.news_items[r].crawl_count >= 2
    /\ ret = TRUE

\* C2: n >= 1 saves of the same NewsItem (same platform, same non-empty
\* canonical URL, same title and rank) into a day-store that did not hold it
\* leave exactly one row for it, with crawl_count = n, and no title_changes
\* row for it.
C2_RepeatedSave ==
    \A i \in 1..Len(log) :
        (/\ CanonicalUrl(i) # EmptyUrl
         /\ \A j \in KeyObs(i) : /\ log[j].item.title = log[i].item.title
                                 /\ log[j].item.rank = log[i].item.rank)
        => /\ Cardinality(KeyRows(conn, i)) = 1
           /\ \A r \in KeyRows(conn, i) :
                 /\ conn.news_items[r].crawl_count = Cardinality(KeyObs(i))
                 /\ conn.news_items[r].title = log[i].item.title
                 /\ \A c \in 1..Len(conn.title_changes) :
                       conn.title_changes[c].news_item_id # r

\* the same item was saved MaxObs times, in separate calls
C2_Witness ==
    /\ Len(log) = MaxObs
    /\ Len(call.items) = 1
    /\ \A j \in 1..Len(log) : log[j].item = log[1].item
    /\ log[1].item.url # EmptyUrl
    /\ Len(conn.news_items) = 1
    /\ conn.news_items[1].crawl_count = MaxObs

\* the observations that met a row of their key holding another title
TitleChangingObs ==
    Indices(Len(log), LAMBDA i :
        /\ PrevObs(i) # 0
        /\ log[PrevObs(i)].item.title # log[i].item.title)

\* C3: an item whose (platform_id, canonical URL) already has a row writes
\* one title_changes row (old title, new title) if and only if its title
\* differs from the persisted one, and creates no news_items row; the insert
\* path writes no title_changes row.  So title_changes is, in order, one row
\* per observation that met another title, and news_items holds one row per
\* key and one per empty-URL observation.
C3_TitleChangeIffDiffers ==
    /\ Len(conn.title_changes) = Len(TitleChangingObs)
    /\ \A c \in 1..Len(conn.title_changes) :
          LET i == TitleChangingObs[c]
              ch == conn.title_changes[c]
          IN /\ ch.old_title = log[PrevObs(i)].item.title
             /\ ch.new_title = log[i].item.title
             /\ ch.news_item_id \in KeyRows(conn, i)
    /\ Len(conn.news_items) =
          Cardinality({i \in 1..Len(log) : PrevObs(i) = 0})

\* a row was merged into three times: once with another title, once without
C3_Witness ==
    \E r \in 1..Len(conn.news_items) :
        /\ conn.news_items[r].crawl_count = 3
        /\ Cardinality({c \in 1..Len(conn.title_changes) :
                           conn.title_changes[c].news_item_id = r}) = 1

\* C4: in every state reachable by save_news_data calls the number of
\* rank_history rows that reference a news_items row equals the row's
\* crawl_count.
C4_RankHistoryCount ==
    \A db \in {conn, disk} : \A r \in 1..Len(db.news_items) :
        RankRowCount(db, r) = db.news_items[r].crawl_count

\* a merged row and an inserted row side by side
C4_Witness ==
    /\ \E r \in 1..Len(disk.news_items) : disk.news_items[r].crawl_count >= 2
    /\ \E r \in 1..Len(disk.news_items) : disk.news_items[r].crawl_count = 1

\* C5: every NewsItem a read operation returns carries one rank per
\* observation, in temporal order: ranks is the rank column of the item's
\* rank_history rows by crawl_time, and its length is the item's crawl_count.
C5_RankHistoryPerObservation ==
    /\ out.op \in {"get_today_all_data", "get_latest_crawl_data",
                   "remote_get_latest_crawl_data"}
          => (out.data # None =>
                \A k \in 1..Len(out.data.items) :
                    Len(out.data.items[k].ranks) = out.data.items[k].count)
    /\ out.op = "read_all_titles_for_date"
          => (out.data # None =>
                \A x \in out.data.all_titles : Len(x.ranks) = x.count)

\* C6: save_news_data is atomic per call: a call that returns true persists
\* its whole batch, a call that returns false persists nothing, and no later
\* operation persists what a failed call had written.  So the committed
\* content is always what the calls that returned true, and only they, wrote.
C6_AtomicPerCall == disk = atomic

\* C7: for every news_items row, after any sequence of save_news_data calls
\* of one day, whatever the order of their crawl_time values,
\* first_crawl_time <= last_crawl_time as text.
C7_FirstLeqLast ==
    \A r \in 1..Len(conn.news_items) :
        StrLeq(conn.news_items[r].first_crawl_time,
               conn.news_items[r].last_crawl_time)

\* the rows that an empty-URL observation of this platform, title, rank and
\* crawl_time would have inserted
EmptyUrlRows(o) ==
    {r \in 1..Len(conn.news_items) :
        /\ conn.news_items[r].url = EmptyUrl
        /\ conn.news_items[r].platform_id = o.item.source_id
        /\ conn.news_items[r].title = o.item.title
        /\ conn.news_items[r].rank = o.item.rank
        /\ conn.news_items[r].first_crawl_time = o.crawl_time
        /\ conn.news_items[r].last_crawl_time = o.crawl_time
        /\ conn.news_items[r].crawl_count = 1}

\* C8: every item with an empty URL is inserted as a new row with
\* crawl_count 1 and first_crawl_time = last_crawl_time = the batch's
\* crawl_time, and is never merged: every empty-URL row is such a row, and k
\* saves of the same empty-URL item at one crawl_time leave k rows for it.
C8_EmptyUrlAlwaysInserted ==
    /\ \A r \in 1..Len(conn.news_items) :
          conn.news_items[r].url = EmptyUrl =>
              \E i \in 1..Len(log) : /\ log[i].item.url = EmptyUrl
                                     /\ r \in EmptyUrlRows(log[i])
    /\ \A i \in 1..Len(log) :
          log[i].item.url = EmptyUrl =>
              Cardinality(EmptyUrlRows(log[i])) =
                  Cardinality({j \in 1..Len(log) : log[j] = log[i]})

\* the same empty-URL item was saved twice at one crawl_time: two rows
C8_Witness ==
    \E i, j \in 1..Len(log) :
        /\ i < j
        /\ log[i] = log[j]
        /\ log[i].item.url = EmptyUrl
        /\ Cardinality(EmptyUrlRows(log[i])) = 2

\* some stored row of the day has first_crawl_time < t
SomeRowEarlier(t) ==
    \E r \in 1..Len(conn.news_items) :
        StrLess(conn.news_items[r].first_crawl_time, t)

\* some stored row of platform x.source_id and title x.title has
\* first_crawl_time < t
SameTitleEarlier(x, t) ==
    \E r \in 1..Len(conn.news_items) :
        /\ conn.news_items[r].platform_id = x.source_id
        /\ conn.news_items[r].title = x.title
        /\ StrLess(conn.news_items[r].first_crawl_time, t)

C10_FirstCrawlEmpty ==
    (out.op = "detect_new_titles" /\ ~SomeRowEarlier(out.current_data.crawl_time))
        => out.data = {}

\* the rows a get_today_all_data of this day-store returns: the id of each
\* row with the crawl_count and the length of the rank history it is given
View(db) ==
    IF get_today_all_data(db) = None THEN {}
    ELSE {[id |-> TodayRows(db)[k],
           count |-> get_today_all_data(db).items[k].count,
           ranks |-> Len(get_today_all_data(db).items[k].ranks)] :
             k \in 1..Len(get_today_all_data(db).items)}

\* C11: reads observe a monotonic view: across save_news_data, record_push
\* and read operations of a day, a news_items row that get_today_all_data
\* returned is returned by every later get_today_all_data, and its
\* crawl_count and rank history never shrink.
C11_MonotonicView ==
    [][\A v \in View(conn) : \E w \in View(conn') :
          /\ w.id = v.id
          /\ w.count >= v.count
          /\ w.ranks >= v.ranks]_vars

\* the number of observations in the batch `call` that have the key of row r
BatchObsOfRow(r) ==
    Cardinality({i \in 1..Len(call.items) :
        /\ call.items[i].source_id = conn.news_items[r].platform_id
        /\ normalize_url(call.items[i].url, call.items[i].source_id) # EmptyUrl
        /\ normalize_url(call.items[i].url, call.items[i].source_id)
              = conn.news_items[r].url})

\* the number of observations in the batch `call` whose URL is empty
BatchEmptyObs ==
    Cardinality({i \in 1..Len(call.items) :
        normalize_url(call.items[i].url, call.items[i].source_id) = EmptyUrl})

PutVerified ==
    /\ reqs.by = "save_news_data"
    /\ Len(reqs.sent) >= 2
    /\ reqs.sent[Len(reqs.sent) - 1] = Req("PUT", "200")
    /\ reqs.sent[Len(reqs.sent)] = Req("HEAD", "200")

\* C13: the remote save_news_data returns true only if the PUT of the
\* day's database succeeded and a HEAD issued after the PUT found the
\* object; if the PUT raises, or the HEAD after the upload does not find
\* the object, it returns false.
C13_TrueOnlyIfVerified ==
    reqs.by = "save_news_data" =>
        /\ ret = TRUE => PutVerified
        /\ (\E i \in 1..Len(reqs.sent) : reqs.sent[i] = Req("PUT", "error")) => ret = FALSE
        /\ (\E i \in 2..Len(reqs.sent) :
               /\ reqs.sent[i - 1].op = "PUT"
               /\ reqs.sent[i].op = "HEAD"
               /\ reqs.sent[i].resp # "200") => ret = FALSE

\* a save whose PUT succeeded and whose HEAD after it got a 404
C13_Witness ==
    /\ reqs.by = "save_news_data"
    /\ ret = FALSE
    /\ Len(reqs.sent) >= 2
    /\ reqs.sent[Len(reqs.sent) - 1] = Req("PUT", "200")
    /\ reqs.sent[Len(reqs.sent)] = Req("HEAD", "404")
    /\ bucket[Today] = disk

\* C14: a transport failure of any object-store request (HEAD, GET or PUT)
\* issued during a remote save_news_data is reported as a failed save: the
\* call returns false, the request is not sent again inside the call, and
\* the failure is never taken for "object absent", so that an existing
\* remote object is replaced by a database built from scratch.
C14_TransportFailureFailsSave ==
    /\ [](reqs.by = "save_news_data" =>
            /\ (\E i \in 1..Len(reqs.sent) : reqs.sent[i].resp = "error") => ret = FALSE
            /\ \A i \in 1..(Len(reqs.sent) - 1) :
                  reqs.sent[i].resp = "error" => reqs.sent[i + 1].op # reqs.sent[i].op)
    /\ [][(/\ bucket[Today] # NoObject
            /\ bucket'[Today] # bucket[Today]
            /\ Len(reqs'.sent) > 0)
              => reqs'.sent[1] # Req("HEAD", "error")]_vars

\* the last save_news_data of the remote backend returned true, the backend
\* still holds its copy, and the bucket held nothing before the day
SavedOnEmptyBucket ==
    /\ call # NoCall
    /\ ret = TRUE
    /\ connected
    /\ \A d \in DateSet : d # Today => bucket[d] = NoObject

\* the last remote call was a pull_recent_days that downloaded today's
\* object into a local directory that had no file for today
PulledToday ==
    /\ reqs.by = "pull_recent_days"
    /\ Len(reqs.sent) >= 2
    /\ reqs.sent[1] = Req("HEAD", "200")
    /\ reqs.sent[2] = Req("GET", "200")

MaxOps == 3
MaxNow == 2

CacheValues == {"v1", "v2"}
TTLs == {1, 2}
CacheOps == {"get", "set", "delete", "clear", "cleanup_expired"}

\* Python's None, which get returns for a miss
Miss == "None"

Entry(v, ts) == [entry |-> "set", value |-> v, timestamp |-> ts]

\* the cache calls that were issued: the finished ones and those in progress
Issued == Len(clog) + Cardinality({t \in Threads : threads[t].pc # "idle"})

AcquireUnguarded(t) == TRUE
\* Lock.__enter__: the thread gets the lock only when no thread holds it
Acquire(t) == lock = NoThread

\* time.time() moves on between any two statements
Tick ==
    /\ now < MaxNow
    /\ now' = now + 1
    /\ UNCHANGED <<storeVars, trip, auxVars, remoteVars, cache, lock, clog, registry, threads>>

\* a thread calls one of the methods and enters its "with self._lock"
CacheAcquire(t) ==
    /\ threads[t].pc = "idle"
    /\ Issued < MaxOps
    /\ Acquire(t)
    /\ lock' = t
    /\ \E op \in CacheOps, k \in CacheKeys, v \in CacheValues, ttl \in TTLs :
          threads' = [threads EXCEPT ![t] =
              [pc |-> "locked", op |-> op,
               key |-> IF op \in {"get", "set", "delete"} THEN k ELSE "",
               value |-> IF op = "set" THEN v ELSE "",
               ttl |-> IF op \in {"get", "cleanup_expired"} THEN ttl ELSE 0]]
    /\ UNCHANGED <<storeVars, trip, auxVars, remoteVars, cache, now, clog, registry>>

\* the body returns: the lock is released and the call is logged
Finish(t, at, result) ==
    /\ lock' = NoThread
    /\ clog' = Append(clog, [op |-> threads[t].op, key |-> threads[t].key,
                             value |-> threads[t].value, ttl |-> threads[t].ttl,
                             at |-> at, result |-> result])
    /\ threads' = [threads EXCEPT ![t] = Idle]

\* get: "if key in self._cache" and "time.time() - self._timestamps[key] < ttl"
CacheGetTest(t) ==
    /\ threads[t].pc = "locked"
    /\ threads[t].op = "get"
    /\ LET k == threads[t].key
           found == IF cache[k] = NoEntry THEN "absent"
                    ELSE IF now - cache[k].timestamp < threads[t].ttl THEN "fresh"
                    ELSE "expired"
       IN  threads' = [threads EXCEPT ![t] =
               [pc |-> "tested", op |-> "get", key |-> k, value |-> "",
                ttl |-> threads[t].ttl, found |-> found, at |-> now]]
    /\ UNCHANGED <<storeVars, trip, auxVars, remoteVars, cache, lock, now, clog, registry>>

\* get: "return self._cache[key]", or the two del's and "return None"; a key
\* that is no longer there raises KeyError
CacheGetReturn(t) ==
    /\ threads[t].pc = "tested"
    /\ LET k == threads[t].key
           gone == cache[k] = NoEntry
       IN  /\ cache' = IF threads[t].found = "expired" /\ ~gone
                       THEN [cache EXCEPT ![k] = NoEntry] ELSE cache
           /\ Finish(t, threads[t].at,
                     CASE threads[t].found = "absent" -> Miss
                       [] gone -> "KeyError"
                       [] threads[t].found = "fresh" -> cache[k].value
                       [] OTHER -> Miss)
    /\ UNCHANGED <<storeVars, trip, auxVars, remoteVars, now, registry>>

\* set: the value and the timestamp of now
CacheSet(t) ==
    /\ threads[t].pc = "locked"
    /\ threads[t].op = "set"
    /\ cache' = [cache EXCEPT ![threads[t].key] = Entry(threads[t].value, now)]
    /\ Finish(t, now, Miss)
    /\ UNCHANGED <<storeVars, trip, auxVars, remoteVars, now, registry>>

\* delete: removes the key if it is there and says whether it was
CacheDelete(t) ==
    /\ threads[t].pc = "locked"
    /\ threads[t].op = "delete"
    /\ cache' = [cache EXCEPT ![threads[t].key] = NoEntry]
    /\ Finish(t, now, cache[threads[t].key] # NoEntry)
    /\ UNCHANGED <<storeVars, trip, auxVars, remoteVars, now, registry>>

\* clear: empties both dictionaries
CacheClear(t) ==
    /\ threads[t].pc = "locked"
    /\ threads[t].op = "clear"
    /\ cache' = [k \in CacheKeys |-> NoEntry]
    /\ Finish(t, now, Miss)
    /\ UNCHANGED <<storeVars, trip, auxVars, remoteVars, now, registry>>

\* cleanup_expired(ttl): removes the keys with now - timestamp >= ttl and
\* returns how many there were
CacheCleanupExpired(t) ==
    /\ threads[t].pc = "locked"
    /\ threads[t].op = "cleanup_expired"
    /\ LET expired_keys == {k \in CacheKeys : /\ cache[k] # NoEntry
                                             /\ now - cache[k].timestamp >= threads[t].ttl}
       IN  /\ cache' = [k \in CacheKeys |-> IF k \in expired_keys THEN NoEntry ELSE cache[k]]
           /\ Finish(t, now, Cardinality(expired_keys))
    /\ UNCHANGED <<storeVars, trip, auxVars, remoteVars, now, registry>>

NextCache ==
    \/ Tick
    \/ \E t \in Threads : CacheAcquire(t)
    \/ \E t \in Threads : CacheGetTest(t)
    \/ \E t \in Threads : CacheGetReturn(t)
    \/ \E t \in Threads : CacheSet(t)
    \/ \E t \in Threads : CacheDelete(t)
    \/ \E t \in Threads : CacheClear(t)
    \/ \E t \in Threads : CacheCleanupExpired(t)

SpecCache == Init /\ [][NextCache]_vars

(***************************************************************************)
(* C16                                                                     *)
(***************************************************************************)
\* the last set of the key of call i before call i, 0 if there is none
LastSet(i) ==
    LET sets == {j \in 1..(i - 1) : clog[j].op = "set" /\ clog[j].key = clog[i].key}
    IN  IF sets = {} THEN 0 ELSE CHOOSE j \in sets : \A m \in sets : m <= j

\* call k removed the entry that call j set
Removes(k, j) ==
    \/ clog[k].op = "delete" /\ clog[k].key = clog[j].key
    \/ clog[k].op = "clear"
    \/ clog[k].op = "cleanup_expired" /\ clog[k].at - clog[j].at >= clog[k].ttl
    \/ /\ clog[k].op = "get"
       /\ clog[k].key = clog[j].key
       /\ clog[k].at - clog[j].at >= clog[k].ttl

\* what the get logged as call i has to return
Expected(i) ==
    LET j == LastSet(i)
    IN  IF /\ j # 0
           /\ \A k \in (j + 1)..(i - 1) : ~Removes(k, j)
           /\ clog[i].at - clog[j].at < clog[i].ttl
        THEN clog[j].value
        ELSE Miss

\* C16: every get returns the value of the most recent set of its key that
\* was not removed since (by delete, clear, cleanup_expired or an expired get)
\* exactly when now - timestamp < ttl and a miss otherwise, and after a get
\* that found its entry expired the entry is gone, under every interleaving
\* of the threads' cache calls.
C16_GetFreshOrMiss ==
    /\ \A i \in 1..Len(clog) : clog[i].op = "get" => clog[i].result = Expected(i)
    /\ Len(clog) > 0 =>
          LET i == Len(clog)
              j == LastSet(i)
          IN  (clog[i].op = "get" /\ j # 0 /\ clog[i].at - clog[j].at >= clog[i].ttl)
                  => cache[clog[i].key] = NoEntry

\* an expired get removed the entry, and a later get whose ttl the entry
\* would have met misses
C16_Witness ==
    \E i, k \in 1..Len(clog) :
        LET j == LastSet(k)
        IN  /\ j # 0 /\ j < k /\ k < i
            /\ clog[k].op = "get" /\ clog[i].op = "get"
            /\ clog[i].key = clog[k].key
            /\ LastSet(i) = j
            /\ clog[k].at - clog[j].at >= clog[k].ttl
            /\ clog[i].at - clog[j].at < clog[i].ttl
            /\ clog[i].result = Miss

(***************************************************************************)
(* The module-level singletons of the tool server: get_cache() and         *)
(* _get_tools().  Neither takes a lock, so the threads interleave between  *)
(* the test, the construction and the return.                              *)
(***************************************************************************)
\* the thread is between two calls, with what its last call returned
Holding(got, val) == [pc |-> "idle", got |-> got, val |-> val]

HoldsCache(t) == threads[t].pc = "idle" /\ threads[t] # Idle /\ threads[t].got = "cache"
HoldsTools(t) == threads[t].pc = "idle" /\ threads[t] # Idle /\ threads[t].got = "tools"

\* get_cache: "if _global_cache is None"
GetCacheTest(t) ==
    /\ threads[t].pc = "idle"
    /\ threads' = [threads EXCEPT ![t] =
          [pc |-> IF registry.global_cache = 0 THEN "cache_create" ELSE "cache_return"]]
    /\ UNCHANGED <<storeVars, trip, auxVars, remoteVars, cache, lock, now, clog, registry>>

\* get_cache: "_global_cache = CacheService()"
GetCacheCreate(t) ==
    /\ threads[t].pc = "cache_create"
    /\ registry' = [registry EXCEPT !.caches = @ + 1, !.global_cache = registry.caches + 1]
    /\ threads' = [threads EXCEPT ![t] = [pc |-> "cache_return"]]
    /\ UNCHANGED <<storeVars, trip, auxVars, remoteVars, cache, lock, now, clog>>

\* get_cache: "return _global_cache"; the caller keeps the object, as
\* ParserService.__init__ does in self.cache
GetCacheReturn(t) ==
    /\ threads[t].pc = "cache_return"
    /\ threads' = [threads EXCEPT ![t] = Holding("cache", registry.global_cache)]
    /\ UNCHANGED <<storeVars, trip, auxVars, remoteVars, cache, lock, now, clog, registry>>

\* a caller sets a key in the cache object it was given
HolderSet(t) ==
    /\ HoldsCache(t)
    /\ \E k \in CacheKeys :
          /\ k \notin registry.entries[threads[t].val]
          /\ registry' = [registry EXCEPT !.entries[threads[t].val] = @ \cup {k}]
    /\ UNCHANGED <<storeVars, trip, auxVars, remoteVars, cache, lock, now, clog, threads>>

\* a caller clears the cache object it was given
HolderClear(t) ==
    /\ HoldsCache(t)
    /\ registry.entries[threads[t].val] # {}
    /\ registry' = [registry EXCEPT !.entries[threads[t].val] = {}]
    /\ UNCHANGED <<storeVars, trip, auxVars, remoteVars, cache, lock, now, clog, threads>>

\* _get_tools: "if not _tools_instances"
GetToolsTest(t) ==
    /\ threads[t].pc = "idle"
    /\ threads' = [threads EXCEPT ![t] =
          IF registry.tools_instances = {} THEN [pc |-> "tools_fill", i |-> 1]
          ELSE [pc |-> "tools_return"]]
    /\ UNCHANGED <<storeVars, trip, auxVars, remoteVars, cache, lock, now, clog, registry>>

\* _get_tools: "_tools_instances[name] = <Tools>(project_root)", one of the
\* six assignments
GetToolsFill(t) ==
    /\ threads[t].pc = "tools_fill"
    /\ LET name == ToolSeq[threads[t].i]
       IN  registry' = [registry EXCEPT !.constructed[name] = @ + 1,
                                        !.tools_instances = @ \cup {name}]
    /\ threads' = [threads EXCEPT ![t] =
          IF threads[t].i < Len(ToolSeq) THEN [pc |-> "tools_fill", i |-> threads[t].i + 1]
          ELSE [pc |-> "tools_return"]]
    /\ UNCHANGED <<storeVars, trip, auxVars, remoteVars, cache, lock, now, clog>>

\* _get_tools: "return _tools_instances"; the caller indexes the dictionary
\* with the keys it holds at that moment
GetToolsReturn(t) ==
    /\ threads[t].pc = "tools_return"
    /\ threads' = [threads EXCEPT ![t] = Holding("tools", registry.tools_instances)]
    /\ UNCHANGED <<storeVars, trip, auxVars, remoteVars, cache, lock, now, clog, registry>>

NextSingletons ==
    \/ \E t \in Threads : GetCacheTest(t)
    \/ \E t \in Threads : GetCacheCreate(t)
    \/ \E t \in Threads : GetCacheReturn(t)
    \/ \E t \in Threads : HolderSet(t)
    \/ \E t \in Threads : HolderClear(t)
    \/ \E t \in Threads : GetToolsTest(t)
    \/ \E t \in Threads : GetToolsFill(t)
    \/ \E t \in Threads : GetToolsReturn(t)

SpecSingletons == Init /\ [][NextSingletons]_vars

NoFault == "none"
ReadOnlyFs == "[Errno 30] Read-only file system"
PermissionDenied == "[Errno 13] Permission denied"
DbLocked == "database is locked"
\* what the day-store can raise while save_news_data runs
StorageFaults == {ReadOnlyFs, PermissionDenied, DbLocked}

\* the four notes of the result, in English
ReadOnlyNote == "crawled, but the database cannot be written (Docker read-only mode); the data is valid in this response only"
SaveFailedNote == "crawled but saving failed: "
SavedNote == "data saved to the SQLite database and the output folder"
SavedMemoryNote == "data saved to the SQLite database (result returned in memory only, no TXT snapshot)"
Absent == "<absent>"

\* '"Read-only file system" in msg or "Permission denied" in msg'
IsReadOnlyMessage(msg) == msg \in {ReadOnlyFs, PermissionDenied}

\* LocalStorageBackend.save_news_data on a backend of its own: an exception
\* anywhere in the body is printed and turned into False; the connection is
\* closed by cleanup() without a commit, so the file is as before
local_save_news_data(db, data, fault) ==
    IF fault = NoFault
    THEN [ok |-> TRUE, db |-> SaveStatements(db, data)]
    ELSE [ok |-> FALSE, db |-> db]

\* the result dictionary trigger_crawl builds
crawl_response(data, save_success, save_error_msg, save_to_local) ==
    [success |-> TRUE,
     platforms |-> {data.items[i].source_id : i \in 1..Len(data.items)},
     total_news |-> Len(data.items),
     failed_platforms |-> data.failed_ids,
     data |-> data.items,
     saved_to_local |-> save_success /\ save_to_local,
     save_error |-> IF save_success THEN Absent ELSE save_error_msg,
     note |-> IF save_success
              THEN (IF save_to_local THEN SavedNote ELSE SavedMemoryNote)
              ELSE IF IsReadOnlyMessage(save_error_msg) THEN ReadOnlyNote
              ELSE SaveFailedNote \o save_error_msg]

HoldsCrawl(t) == threads[t].pc = "idle" /\ threads[t] # Idle /\ threads[t].got = "crawl"
HoldsRead(t) == threads[t].pc = "idle" /\ threads[t] # Idle /\ threads[t].got = "read"

\* the newest day-store state that a returned trigger_crawl has saved
ReturnedVersion == IF out = NoOut THEN 0 ELSE out.version

\* trigger_crawl up to the end of its inner try: the fetch succeeded with
\* the batch data, and "if storage.save_news_data(news_data): save_success =
\* True" ran on a day-store that raises fault (or nothing)
CrawlSave(t) ==
    /\ threads[t].pc = "idle"
    /\ quota > 0
    /\ \E data \in Calls(quota), fault \in StorageFaults \cup {NoFault},
          save_to_local \in BOOLEAN :
          LET saved == local_save_news_data(disk, data, fault)
          IN  /\ quota' = quota - Len(data.items)
              /\ disk' = saved.db
              /\ conn' = saved.db
              /\ call' = data
              /\ ret' = saved.ok
              /\ threads' = [threads EXCEPT ![t] =
                    [pc |-> "crawl_saved", data |-> data, fault |-> fault,
                     save_success |-> saved.ok, save_error_msg |-> "",
                     save_to_local |-> save_to_local,
                     version |-> IF saved.ok THEN saved.db.crawl_seq ELSE 0]]
    /\ UNCHANGED <<log, atomic, out, trip, auxVars, remoteVars, cache, lock, now, clog, registry>>

\* trigger_crawl: "get_cache().clear()"
CrawlClear(t) ==
    /\ threads[t].pc = "crawl_saved"
    /\ cache' = [k \in CacheKeys |-> NoEntry]
    /\ threads' = [threads EXCEPT ![t].pc = "crawl_cleared"]
    /\ UNCHANGED <<storeVars, trip, auxVars, remoteVars, lock, now, clog, registry>>

\* trigger_crawl: the result is built and returned
CrawlReturn(t) ==
    /\ threads[t].pc = "crawl_cleared"
    /\ LET c == threads[t]
       IN  /\ threads' = [threads EXCEPT ![t] =
                 Holding("crawl",
                     [response |-> crawl_response(c.data, c.save_success,
                                                  c.save_error_msg, c.save_to_local),
                      data |-> c.data, fault |-> c.fault])]
           /\ out' = [op |-> "trigger_crawl",
                      version |-> IF c.version > ReturnedVersion
                                  THEN c.version ELSE ReturnedVersion]
    /\ UNCHANGED <<conn, disk, call, ret, log, atomic, quota,
                   trip, auxVars, remoteVars, cache, lock, now, clog, registry>>

\* the ttl read_all_titles_for_date passes for today's key: 900 seconds,
\* longer than the time these calls take
TodayTTL == MaxNow + 1

\* read_all_titles_for_date(today): "cached = self.cache.get(cache_key,
\* ttl)" and "if cached: return cached"
ReadCacheGet(t) ==
    /\ threads[t].pc = "idle"
    /\ LET k == cache_key(Today)
           hit == cache[k] # NoEntry /\ now - cache[k].timestamp < TodayTTL
       IN  /\ cache' = IF cache[k] # NoEntry /\ ~hit
                       THEN [cache EXCEPT ![k] = NoEntry] ELSE cache
           /\ threads' = [threads EXCEPT ![t] =
                 IF hit
                 THEN Holding("read", [result |-> cache[k].value,
                                       floor |-> ReturnedVersion])
                 ELSE [pc |-> "read_storage", floor |-> ReturnedVersion]]
    /\ UNCHANGED <<storeVars, trip, auxVars, remoteVars, lock, now, clog, registry>>

\* read_all_titles_for_date: "_read_from_sqlite(date, platform_ids)"; with
\* no row and no TXT snapshot DataNotFoundError is raised
ReadStorage(t) ==
    /\ threads[t].pc = "read_storage"
    /\ LET sqlite_result == [titles |-> read_from_sqlite(disk),
                             version |-> disk.crawl_seq]
       IN  threads' = [threads EXCEPT ![t] =
               IF sqlite_result.titles = None
               THEN Holding("read", [result |-> sqlite_result,
                                     floor |-> threads[t].floor])
               ELSE [pc |-> "read_set", sqlite_result |-> sqlite_result,
                     floor |-> threads[t].floor]]
    /\ UNCHANGED <<storeVars, trip, auxVars, remoteVars, cache, lock, now, clog, registry>>

\* read_all_titles_for_date: "self.cache.set(cache_key, sqlite_result)" and
\* "return sqlite_result"
ReadCacheSet(t) ==
    /\ threads[t].pc = "read_set"
    /\ cache' = [cache EXCEPT ![cache_key(Today)] =
                    Entry(threads[t].sqlite_result, now)]
    /\ threads' = [threads EXCEPT ![t] =
          Holding("read", [result |-> threads[t].sqlite_result,
                           floor |-> threads[t].floor])]
    /\ UNCHANGED <<storeVars, trip, auxVars, remoteVars, lock, now, clog, registry>>

\* the server starts on a day-store that is empty or holds one batch that an
\* earlier run of the crawler saved
InitCrawl ==
    /\ disk \in {EmptyDb} \cup {SaveStatements(EmptyDb, d) : d \in Calls(1)}
    /\ conn = disk
    /\ call = NoCall
    /\ ret = TRUE
    /\ log = <<>>
    /\ atomic = EmptyDb
    /\ out = NoOut
    /\ quota = MaxObs - 2
    /\ SvcInit

NextCrawl ==
    \/ \E t \in Threads : CrawlSave(t)
    \/ \E t \in Threads : CrawlClear(t)
    \/ \E t \in Threads : CrawlReturn(t)
    \/ \E t \in Threads : ReadCacheGet(t)
    \/ \E t \in Threads : ReadStorage(t)
    \/ \E t \in Threads : ReadCacheSet(t)

SpecCrawl == InitCrawl /\ [][NextCrawl]_vars

(***************************************************************************)
(* C19                                                                     *)
(***************************************************************************)
\* C19: when the fetch succeeded and the day-store failed, trigger_crawl
\* returns success with the fetched platforms, failed platforms, count and
\* data, saved_to_local = false, a save_error holding the message of the
\* storage failure, and a note: the read-only note when the failure was a
\* read-only file system or a permission error.
C19_SaveFailureSurfaced ==
    \A t \in Threads :
        (HoldsCrawl(t) /\ threads[t].val.fault # NoFault) =>
            LET r == threads[t].val.response
                d == threads[t].val.data
            IN  /\ r.success
                /\ r.platforms = {d.items[i].source_id : i \in 1..Len(d.items)}
                /\ r.failed_platforms = d.failed_ids
                /\ r.total_news = Len(d.items)
                /\ r.data = d.items
                /\ r.saved_to_local = FALSE
                /\ r.save_error = threads[t].val.fault
                /\ IsReadOnlyMessage(threads[t].val.fault) => r.note = ReadOnlyNote
                /\ r.note # ""

MaxFolders == 2

\* format_date_folder(date): the ISO name of the day
date_folder(d) == [form |-> "iso", day |-> d, suffix |-> ""]
DayOf(t) == t \div 6
Present == {n \in FolderNames : data_dir[n] # NoFolder}
EmptyFolder == [folder |-> "dir", push_records |-> {}]

\* _get_db_path and _get_connection: the folder is made if it is missing,
\* the database is opened and the connection is cached under its path
dir_get_connection(dir, n) ==
    IF dir[n] = NoFolder THEN [dir EXCEPT ![n] = EmptyFolder] ELSE dir

push_insert(rows, d, push_time, report_type) ==
    rows \cup {[date |-> d, pushed |-> 1, push_time |-> push_time,
                report_type |-> report_type]}
\* INSERT INTO push_records ... ON CONFLICT(date) DO UPDATE SET pushed = 1,
\* push_time, report_type
push_upsert(rows, d, push_time, report_type) ==
    {r \in rows : r.date # d} \cup
        {[date |-> d, pushed |-> 1, push_time |-> push_time,
          report_type |-> report_type]}

\* SELECT pushed FROM push_records WHERE date = ?; bool(row[0]) or False
select_pushed(rows, d) == \E r \in rows : r.date = d /\ r.pushed = 1

\* what has_pushed_today(d) returns on the data_dir as it is
has_pushed_today(dir, d) ==
    select_pushed(dir_get_connection(dir, date_folder(d))[date_folder(d)].push_records, d)

\* time passes: from 12:00 to 23:57, from 23:57 to 12:00 of the next day
DirTick ==
    /\ DayOf(clock) < MaxDay \/ clock % 6 = 2
    /\ clock' = IF clock % 6 = 2 THEN clock + 2 ELSE clock + 4
    /\ UNCHANGED <<data_dir, db_connections, dirout, backend>>
    /\ UNCHANGED <<storeVars, trip, remoteVars, mcpVars, pureVars, fleetVars>>

\* a folder that an earlier version or the user left in data_dir
MakeFolder ==
    /\ backend = "local"
    /\ Cardinality(Present) < MaxFolders
    /\ \E n \in FolderNames \ Present :
          /\ n.day <= DayOf(clock)
          /\ n # date_folder(n.day)
          /\ data_dir' = [data_dir EXCEPT ![n] = EmptyFolder]
    /\ UNCHANGED <<db_connections, clock, dirout, backend>>
    /\ UNCHANGED <<storeVars, trip, remoteVars, mcpVars, pureVars, fleetVars>>

\* record_push(report_type, date)
DirRecordPush ==
    /\ backend = "local"
    /\ \E d \in 0..DayOf(clock), report_type \in ReportTypes :
          LET n == date_folder(d)
              dir == dir_get_connection(data_dir, n)
          IN  /\ n \in Present \/ Cardinality(Present) < MaxFolders
              /\ data_dir' = [dir EXCEPT ![n].push_records =
                                  push_upsert(@, d, clock, report_type)]
              /\ db_connections' = db_connections \cup {n}
              /\ dirout' = [op |-> "record_push", date |-> d, result |-> TRUE]
    /\ UNCHANGED <<clock, backend>>
    /\ UNCHANGED <<storeVars, trip, remoteVars, mcpVars, pureVars, fleetVars>>

\* has_pushed_today(date)
DirHasPushedToday ==
    /\ backend = "local"
    /\ \E d \in 0..DayOf(clock) :
          LET n == date_folder(d)
          IN  /\ n \in Present \/ Cardinality(Present) < MaxFolders
              /\ data_dir' = dir_get_connection(data_dir, n)
              /\ db_connections' = db_connections \cup {n}
              /\ dirout' = [op |-> "has_pushed_today", date |-> d,
                            result |-> has_pushed_today(data_dir, d)]
    /\ UNCHANGED <<clock, backend>>
    /\ UNCHANGED <<storeVars, trip, remoteVars, mcpVars, pureVars, fleetVars>>

\* re.match of the ISO form, else of the legacy form, on the folder name:
\* the name has only to begin with the date
parse_folder_date(n) == n.day

\* datetime(y, m, d, tzinfo=pytz.timezone("Asia/Shanghai")): pytz zones
\* given as tzinfo carry the zone's first offset, local mean time +08:06, so
\* the instant is 00:00 +08:06 of the day, that is 23:54 +08:00 of the day
\* before
folder_date(n) == parse_folder_date(n) * 6 - 3

\* the folders cleanup_old_data(retention_days) removes at time t
expired_folders(dir, retention_days, t) ==
    IF retention_days <= 0 THEN {}
    ELSE {n \in FolderNames : dir[n] # NoFolder /\ folder_date(n) < t - retention_days * 6}

RetentionDays == {-1, 0, 1, 2}

\* cleanup_old_data(retention_days): for each expired folder the cached
\* connection is closed and dropped, then the folder is removed
CleanupOldData ==
    /\ backend = "local"
    /\ \E retention_days \in RetentionDays :
          LET gone == expired_folders(data_dir, retention_days, clock)
          IN  /\ data_dir' = [n \in FolderNames |->
                                 IF n \in gone THEN NoFolder ELSE data_dir[n]]
              /\ db_connections' = db_connections \ gone
              /\ dirout' = [op |-> "cleanup_old_data", days |-> retention_days,
                            before |-> Present, at |-> clock,
                            result |-> Cardinality(gone)]
    /\ UNCHANGED <<clock, backend>>
    /\ UNCHANGED <<storeVars, trip, remoteVars, mcpVars, pureVars, fleetVars>>

\* the day Today as a number of the clock's days
TodayDay == MaxDay

\* RemoteStorageBackend.record_push(report_type): the row is written to the
\* temp copy and committed, the copy is uploaded, and the upload's result is
\* returned
RemotePush(DL, UL) ==
    /\ backend = "remote"
    /\ \E report_type \in ReportTypes, ul \in UL,
          dl \in IF connected \/ tmp # NoFile THEN {DownloadOk} ELSE DL :
        LET gc == IF connected
                  THEN [file |-> tmp, raised |-> FALSE, reqs |-> <<>>]
                  ELSE get_connection(bucket, tmp, dl.head, dl.get, dl.broken)
        IN IF gc.raised
           THEN /\ tmp' = gc.file
                /\ reqs' = [by |-> "record_push", sent |-> gc.reqs]
                /\ dirout' = [op |-> "record_push", date |-> TodayDay, result |-> FALSE]
                /\ UNCHANGED <<conn, disk, bucket, connected>>
           ELSE LET db == [(IF connected THEN conn ELSE gc.file.db) EXCEPT
                              !.push_records = push_upsert(@, TodayDay, clock, report_type)]
                    up == upload_sqlite(bucket, Today, db, ul.put, ul.verify)
                IN /\ conn' = db
                   /\ disk' = db
                   /\ tmp' = DbFile(db)
                   /\ connected' = TRUE
                   /\ bucket' = up.bucket
                   /\ reqs' = [by |-> "record_push", sent |-> gc.reqs \o up.reqs]
                   /\ dirout' = [op |-> "record_push", date |-> TodayDay, result |-> up.ok]
    /\ UNCHANGED <<call, ret, log, atomic, out, quota, trip, localdir, mcpVars, pureVars, fleetVars,
                   data_dir, db_connections, clock, backend>>

RemoteRecordPush == RemotePush({DownloadOk}, {UploadOk})

\* RemoteStorageBackend.has_pushed_today(): every exception gives False
RemoteHasPushed(DL) ==
    /\ backend = "remote"
    /\ \E dl \in IF connected \/ tmp # NoFile THEN {DownloadOk} ELSE DL :
        LET gc == IF connected
                  THEN [file |-> tmp, raised |-> FALSE, reqs |-> <<>>]
                  ELSE get_connection(bucket, tmp, dl.head, dl.get, dl.broken)
        IN /\ tmp' = gc.file
           /\ reqs' = [by |-> "has_pushed_today", sent |-> gc.reqs]
           /\ IF gc.raised
              THEN /\ dirout' = [op |-> "has_pushed_today", date |-> TodayDay,
                                 result |-> FALSE]
                   /\ UNCHANGED <<conn, disk, connected>>
              ELSE /\ conn' = IF connected THEN conn ELSE gc.file.db
                   /\ disk' = IF connected THEN disk ELSE gc.file.db
                   /\ connected' = TRUE
                   /\ dirout' = [op |-> "has_pushed_today", date |-> TodayDay,
                                 result |-> select_pushed(conn'.push_records, TodayDay)]
    /\ UNCHANGED <<call, ret, log, atomic, out, quota, trip, bucket, localdir, mcpVars,
                   pureVars, fleetVars, data_dir, db_connections, clock, backend>>

RemoteHasPushedToday == RemoteHasPushed({DownloadOk})

\* the process is configured with the local or with the remote backend
InitDir ==
    /\ conn = EmptyDb
    /\ disk = EmptyDb
    /\ call = NoCall
    /\ ret = TRUE
    /\ log = <<>>
    /\ atomic = EmptyDb
    /\ out = NoOut
    /\ quota = 0
    /\ trip = NoTrip
    /\ \E bkt \in {EmptyBucket, [EmptyBucket EXCEPT ![Today] = EmptyDb]} :
          RemoteInit(bkt)
    /\ McpInit
    /\ PureInit
    /\ FleetInit
    /\ \E b \in {"local", "remote"} : DirInitOf(b)

NextDir ==
    \/ DirTick
    \/ MakeFolder
    \/ DirRecordPush
    \/ DirHasPushedToday
    \/ CleanupOldData
    \/ RemoteRecordPush
    \/ RemoteHasPushedToday
    \/ RemoteCleanup

SpecDir == InitDir /\ [][NextDir]_vars

(***************************************************************************)
(* C21                                                                     *)
(***************************************************************************)
\* the push_records rows of day d in the day-store of d: the local folder's
\* database, or what the remote backend would open (its connection, its temp
\* copy, or else the object of the bucket)
RemoteDayStore ==
    IF connected THEN conn
    ELSE IF tmp # NoFile THEN tmp.db
    ELSE IF bucket[Today] # NoObject THEN bucket[Today]
    ELSE EmptyDb

PushRows(d) ==
    IF backend = "remote"
    THEN {r \in RemoteDayStore.push_records : r.date = d}
    ELSE IF data_dir[date_folder(d)] = NoFolder THEN {}
    ELSE {r \in data_dir[date_folder(d)].push_records : r.date = d}

Pushed(d) == \E r \in PushRows(d) : r.pushed = 1

\* the day-store of d is not deleted by the step
DayKept(d) ==
    IF backend = "remote" THEN TRUE ELSE data_dir'[date_folder(d)] # NoFolder

DayFoldersBefore(dir, days, t) ==
    {n \in FolderNames : /\ dir[n] # NoFolder
                         /\ n.suffix = ""
                         /\ n.day * 6 < t - days * 6}

\* C22: cleanup_old_data(days) with days > 0 removes exactly the day-folders
\* (ISO or legacy name) whose date is before now - days and keeps every
\* other folder, with days <= 0 it removes nothing; the connections of the
\* removed folders are dropped, so no cached connection refers to a folder
\* that is gone.
C22_CleanupExactlyExpired ==
    /\ [](db_connections \subseteq Present)
    /\ [][(dirout' # dirout /\ dirout'.op = "cleanup_old_data") =>
            LET days == dirout'.days
                expired == IF days <= 0 THEN {}
                           ELSE DayFoldersBefore(data_dir, days, clock)
            IN  /\ {n \in FolderNames : data_dir'[n] # NoFolder} = Present \ expired
                /\ \A n \in Present \ expired : data_dir'[n] = data_dir[n]
                /\ db_connections' = db_connections \ expired
                /\ dirout'.result = Cardinality(expired)]_vars

(***************************************************************************)
(* Functions checked on enumerated arguments: the arguments are chosen in  *)
(* the initial state and one step applies the function to them.            *)
(***************************************************************************)
\* everything but the arguments is as after construction
BaseInit ==
    /\ conn = EmptyDb
    /\ disk = EmptyDb
    /\ call = NoCall
    /\ ret = TRUE
    /\ log = <<>>
    /\ atomic = EmptyDb
    /\ out = NoOut
    /\ quota = 0
    /\ trip = NoTrip
    /\ RemoteInit(EmptyBucket)
    /\ McpInit
    /\ DirInit
    /\ FleetInit

notPure == <<storeVars, trip, remoteVars, mcpVars, dirVars, fleetVars>>

(***************************************************************************)
(* RemoteStorageBackend.cleanup_old_data                                   *)
(***************************************************************************)
batch_size == 1000

\* the keys under news/: news/<date>.db in the ISO or the legacy form of a
\* day, or such a name followed by more text
IsoKey(d) == [form |-> "iso", day |-> d, tail |-> ""]
LegacyKey(d) == [form |-> "legacy", day |-> d, tail |-> ""]
JunkKey(d) == [form |-> "iso", day |-> d, tail |-> ".bak"]

\* re.match(r'news/(\d{4})-(\d{2})-(\d{2})\.db$', key), or the legacy
\* pattern: the whole key has to be the name of a day's database
key_matches(k) == k.tail = ""

\* the keys to delete, in the order the listing gives them: the ISO keys by
\* date, then the legacy keys by date
objects_to_delete(keys, cutoff) ==
    LET old(k) == k \in keys /\ key_matches(k) /\ folder_date(k) < cutoff
    IN  SelectSeq([d \in 1..(2 * batch_size + 1) |-> IsoKey(d)], old)
            \o SelectSeq(<<LegacyKey(1), LegacyKey(2)>>, old)

\* the slices objects_to_delete[i:i + batch_size]
Batches(objs) ==
    [b \in 1..((Len(objs) + batch_size - 1) \div batch_size) |->
        SubSeq(objs, (b - 1) * batch_size + 1,
               IF b * batch_size < Len(objs) THEN b * batch_size ELSE Len(objs))]

\* cleanup_old_data(retention_days) at time t on a bucket with the keys
\* a.keys, when the listing ends as a.list and the delete requests numbered
\* in a.failing raise
remote_cleanup_old_data(a) ==
    IF a.retention_days <= 0 \/ a.list = "error"
    THEN [requests |-> <<>>, keys |-> a.keys, result |-> 0]
    ELSE LET objs == objects_to_delete(a.keys, a.t - a.retention_days * 6)
             batches == Batches(objs)
             done == {b \in 1..Len(batches) : b \notin a.failing}
             deleted == UNION {{batches[b][i] : i \in 1..Len(batches[b])} : b \in done}
         IN  [requests |-> batches,
              keys |-> a.keys \ deleted,
              result |-> Len(objs)]

\* buckets with the databases of the days 1..n, some legacy keys and some
\* keys that only look like one
CleanupArgs ==
    {[f |-> "cleanup_old_data", op |-> "cleanup_old_data",
      keys |-> {IsoKey(d) : d \in 1..n} \cup {LegacyKey(d) : d \in L}
                  \cup {JunkKey(d) : d \in J},
      t |-> (n + 1) * 6 + tod, retention_days |-> r, list |-> l, failing |-> F] :
        n \in {0, 1, batch_size, batch_size + 1, 2 * batch_size + 1},
        L \in SUBSET {1, 2}, J \in SUBSET {1}, tod \in {2, 4}, r \in {0, 1, 2},
        l \in {"ok"}, F \in SUBSET {1, 3}}
        \cup
    {[f |-> "cleanup_old_data", op |-> "cleanup_old_data",
      keys |-> {IsoKey(d) : d \in 1..2}, t |-> 20, retention_days |-> 1,
      list |-> "error", failing |-> {}]}

InitCleanup == BaseInit /\ fin \in CleanupArgs /\ fout = NoArgs

RemoteCleanupOldData ==
    /\ fin.f = "cleanup_old_data"
    /\ fout = NoArgs
    /\ fout' = remote_cleanup_old_data(fin)
    /\ UNCHANGED <<fin, notPure>>

SpecCleanup == InitCleanup /\ [][RemoteCleanupOldData]_vars

(***************************************************************************)
(* C23                                                                     *)
(***************************************************************************)
\* C23: remote cleanup_old_data(days) with days > 0 deletes only keys
\* news/<date>.db (either date form) whose date is before the cutoff, sends
\* delete requests of at most 1000 keys, and returns the number of database
\* files that were deleted from the bucket: the keys of a request that
\* failed are not counted.
C23_CountsDeleted ==
    fout # NoArgs =>
        LET gone == fin.keys \ fout.keys
        IN  /\ \A k \in gone : /\ k.tail = ""
                               /\ k.day * 6 < fin.t - fin.retention_days * 6
            /\ fout.keys \subseteq fin.keys
            /\ \A b \in 1..Len(fout.requests) : Len(fout.requests[b]) <= batch_size
            /\ fout.result = Cardinality(gone)

(***************************************************************************)
(* Keyword rules: load_frequency_words, matches_word_groups and the        *)
(* grouping of count_word_frequency.  A text is a sequence of pieces; a    *)
(* piece stands for one character or for a run of characters that the      *)
(* inputs never split.  The Chinese words of the examples are written in   *)
(* pinyin: tesila, xuanbu, jiangjia, 5wan, zhangjia, ershou, che,          *)
(* guanggao, cuxiao.                                                       *)
(***************************************************************************)
MaxLines == 3

\* str.upper and str.lower on a piece
upper(c) ==
    CASE c = "global_filter" -> "GLOBAL_FILTER"
      [] c = "word_groups" -> "WORD_GROUPS"
      [] c = "ai" -> "AI"
      [] OTHER -> c
lower(c) ==
    CASE c = "GLOBAL_FILTER" -> "global_filter"
      [] c = "WORD_GROUPS" -> "word_groups"
      [] c = "AI" -> "ai"
      [] OTHER -> c
Lower(s) == [i \in 1..Len(s) |-> lower(s[i])]

\* str.strip
RECURSIVE strip(_)
strip(s) ==
    IF s = <<>> THEN s
    ELSE IF Head(s) = " " THEN strip(Tail(s))
    ELSE IF s[Len(s)] = " " THEN strip(SubSeq(s, 1, Len(s) - 1))
    ELSE s

\* w in s
Contains(s, w) == \E i \in 0..(Len(s) - Len(w)) : SubSeq(s, i + 1, i + Len(w)) = w

\* " ".join(words)
RECURSIVE join(_)
join(words) ==
    IF words = <<>> THEN <<>>
    ELSE IF Len(words) = 1 THEN words[1]
    ELSE words[1] \o <<" ">> \o join(Tail(words))

\* content.split("\n\n") on the lines of the file, each group stripped and
\* split into its stripped non-empty lines, empty groups dropped
RECURSIVE split_groups(_, _)
split_groups(lines, cur) ==
    LET done == IF cur = <<>> THEN <<>> ELSE <<cur>>
    IN  IF lines = <<>> THEN done
        ELSE IF Head(lines) = <<>> THEN done \o split_groups(Tail(lines), <<>>)
        ELSE split_groups(Tail(lines),
                          IF strip(Head(lines)) = <<>> THEN cur
                          ELSE Append(cur, strip(Head(lines))))

MissingFile == <<<<"no such file">>>>
NoWords == [groups |-> <<>>, filter_words |-> <<>>, global_filters |-> <<>>]

\* lines[0].startswith("[") and lines[0].endswith("]") with a known name
is_section(line) ==
    /\ Len(line) = 3
    /\ line[1] = "["
    /\ line[3] = "]"
    /\ upper(line[2]) \in {"GLOBAL_FILTER", "WORD_GROUPS"}

\* int(word[1:]) when it is a positive number, else 0
max_count_of(word) ==
    IF Len(word) = 2 /\ word[2] = "5" THEN 5 ELSE 0

\* the words of one group of the word-group section
RECURSIVE parse_group(_, _)
parse_group(words, g) ==
    IF words = <<>> THEN g
    ELSE LET word == Head(words)
         IN  parse_group(Tail(words),
                CASE word[1] = "@" ->
                        IF max_count_of(word) > 0
                        THEN [g EXCEPT !.max_count = max_count_of(word)] ELSE g
                  [] word[1] = "!" -> [g EXCEPT !.filter = Append(@, Tail(word))]
                  [] word[1] = "+" -> [g EXCEPT !.required = Append(@, Tail(word))]
                  [] OTHER -> [g EXCEPT !.normal = Append(@, word)])

RECURSIVE load_groups(_, _, _)
load_groups(gs, current_section, acc) ==
    IF gs = <<>> THEN acc
    ELSE LET marked == is_section(Head(gs)[1])
             section == IF marked THEN upper(Head(gs)[1][2]) ELSE current_section
             lines == IF marked THEN Tail(Head(gs)) ELSE Head(gs)
             bare(line) == line[1] \notin {"!", "+", "@"}
             g == parse_group(lines, [required |-> <<>>, normal |-> <<>>,
                                      filter |-> <<>>, max_count |-> 0])
             emitted ==
                 IF g.required # <<>> \/ g.normal # <<>>
                 THEN <<[required |-> g.required, normal |-> g.normal,
                         group_key |-> IF g.normal # <<>> THEN join(g.normal)
                                       ELSE join(g.required),
                         max_count |-> g.max_count]>>
                 ELSE <<>>
         IN  IF section = "GLOBAL_FILTER"
             THEN load_groups(Tail(gs), section,
                      [acc EXCEPT !.global_filters = @ \o SelectSeq(lines, bare)])
             ELSE load_groups(Tail(gs), section,
                      [acc EXCEPT !.groups = @ \o emitted,
                                  !.filter_words = @ \o g.filter])

load_frequency_words(frequency_file) ==
    IF frequency_file = MissingFile
    THEN [raised |-> "FileNotFoundError"]
    ELSE [raised |-> "no"] @@ load_groups(split_groups(frequency_file, <<>>), "WORD_GROUPS", NoWords)

any_in(words, s) == \E i \in 1..Len(words) : Contains(s, Lower(words[i]))
all_in(words, s) == \A i \in 1..Len(words) : Contains(s, Lower(words[i]))

\* the required and normal words of one group against a lowered title
group_matches(group, title_lower) ==
    /\ group.required # <<>> => all_in(group.required, title_lower)
    /\ group.normal # <<>> => any_in(group.normal, title_lower)

matches_word_groups(title, word_groups, filter_words, global_filters) ==
    IF strip(title) = <<>> THEN FALSE
    ELSE IF any_in(global_filters, Lower(title)) THEN FALSE
    ELSE IF word_groups = <<>> THEN TRUE
    ELSE IF any_in(filter_words, Lower(title)) THEN FALSE
    ELSE \E i \in 1..Len(word_groups) : group_matches(word_groups[i], Lower(title))

AllNews == <<"quanbu xinwen">>
AllNewsGroup == [required |-> <<>>, normal |-> <<>>, group_key |-> AllNews]

\* count_word_frequency without the "break" after the first group that
\* takes the title
count_word_frequency_every(results, word_groups0, filter_words0, global_filters) ==
    LET word_groups == IF word_groups0 = <<>> THEN <<AllNewsGroup>> ELSE word_groups0
        filter_words == IF word_groups0 = <<>> THEN <<>> ELSE filter_words0
        all == Len(word_groups) = 1 /\ word_groups[1].group_key = AllNews
        hit(title, i) == all \/ group_matches(word_groups[i], Lower(title))
        counted(key) ==
            {title \in results :
                /\ matches_word_groups(title, word_groups, filter_words, global_filters)
                /\ \E i \in 1..Len(word_groups) :
                        hit(title, i) /\ word_groups[i].group_key = key}
    IN  [word_stats |-> [key \in {word_groups[i].group_key : i \in 1..Len(word_groups)} |->
                            [count |-> Cardinality(counted(key)), titles |-> counted(key)]],
         total_titles |-> Cardinality(results)]
\* count_word_frequency on the titles of one source in the daily mode: the
\* titles counted under each group key, and total_titles
count_word_frequency(results, word_groups0, filter_words0, global_filters) ==
    LET word_groups == IF word_groups0 = <<>> THEN <<AllNewsGroup>> ELSE word_groups0
        filter_words == IF word_groups0 = <<>> THEN <<>> ELSE filter_words0
        all == Len(word_groups) = 1 /\ word_groups[1].group_key = AllNews
        hit(title, i) == all \/ group_matches(word_groups[i], Lower(title))
        first(title) == CHOOSE i \in 1..Len(word_groups) :
                            hit(title, i) /\ \A j \in 1..(i - 1) : ~hit(title, j)
        counted(key) ==
            {title \in results :
                /\ matches_word_groups(title, word_groups, filter_words, global_filters)
                /\ \E i \in 1..Len(word_groups) : hit(title, i)
                /\ word_groups[first(title)].group_key = key}
    IN  [word_stats |-> [key \in {word_groups[i].group_key : i \in 1..Len(word_groups)} |->
                            [count |-> Cardinality(counted(key)), titles |-> counted(key)]],
         total_titles |-> Cardinality(results)]

\* the rule file of the scenario: no blank line between its lines
ScenarioFile ==
    << <<"[", "GLOBAL_FILTER", "]">>, <<"guanggao">>, <<"[", "WORD_GROUPS", "]">>,
       <<"+", "tesila">>, <<"zhangjia", ",", "jiangjia">>, <<"!", "ershou">>, <<"@", "5">> >>

Title1 == <<"tesila", "xuanbu", "jiangjia", "5wan">>
Title2 == <<"tesila", "ershou", "che">>
Title3 == <<"guanggao", ":", "tesila", "cuxiao">>
Title4 == <<"AI", "xuanbu">>
NewsTitles == {Title1, Title2, Title3, Title4}

FileLines ==
    { <<>>, <<"[", "GLOBAL_FILTER", "]">>, <<"[", "word_groups", "]">>,
      <<"+", "tesila">>, <<"jiangjia">>, <<"!", "ershou">>, <<"@", "5">>,
      <<"#", " ", "tesila">>, <<"guanggao", " ">>, <<"ai">> }

RuleFiles ==
    {MissingFile, ScenarioFile}
        \cup UNION {[1..n -> FileLines] : n \in 0..MaxLines}

WordArgs ==
    {[op |-> "words", file |-> file, results |-> results] :
        file \in RuleFiles, results \in {{t} : t \in NewsTitles} \cup {NewsTitles}}

InitWords == BaseInit /\ fin \in WordArgs /\ fout = NoArgs

LoadFrequencyWords ==
    /\ fin.op = "words"
    /\ fout = NoArgs
    /\ fout' = [op |-> "load_frequency_words", loaded |-> load_frequency_words(fin.file)]
    /\ UNCHANGED <<fin, notPure>>

CountWordFrequency ==
    /\ fout.op = "load_frequency_words"
    /\ fout.loaded.raised = "no"
    /\ fout' = [op |-> "count_word_frequency", loaded |-> fout.loaded,
                matched |-> {t \in fin.results :
                                matches_word_groups(t, fout.loaded.groups,
                                    fout.loaded.filter_words, fout.loaded.global_filters)},
                stats |-> count_word_frequency(fin.results, fout.loaded.groups,
                              fout.loaded.filter_words, fout.loaded.global_filters)]
    /\ UNCHANGED <<fin, notPure>>

NextWords == LoadFrequencyWords \/ CountWordFrequency
SpecWords == InitWords /\ [][NextWords]_vars

(***************************************************************************)
(* C24                                                                     *)
(***************************************************************************)
\* C24: load_frequency_words on a path that does not exist returns empty
\* word groups, empty filter words and empty global filters, and does not
\* raise.
C24_MissingFileEmpty ==
    (fout.op = "load_frequency_words" /\ fin.file = MissingFile) =>
        /\ fout.loaded.raised = "no"
        /\ fout.loaded.groups = <<>>
        /\ fout.loaded.filter_words = <<>>
        /\ fout.loaded.global_filters = <<>>

(***************************************************************************)
(* C25                                                                     *)
(***************************************************************************)
\* C25: with the rule file of the scenario, the first title matches and is
\* counted under the group whose key is "zhangjia jiangjia" and whose
\* max_count is 5, the second title is rejected by the group filter and the
\* third by the global filter.
C25_Scenario ==
    (fout.op = "count_word_frequency" /\ fin.file = ScenarioFile) =>
        LET key == <<"zhangjia", " ", "jiangjia">>
        IN  /\ Title1 \in fin.results =>
                /\ Title1 \in fout.matched
                /\ \E i \in 1..Len(fout.loaded.groups) :
                        /\ fout.loaded.groups[i].group_key = key
                        /\ fout.loaded.groups[i].max_count = 5
                /\ key \in DOMAIN fout.stats.word_stats
                /\ Title1 \in fout.stats.word_stats[key].titles
            /\ Title2 \notin fout.matched
            /\ Title3 \notin fout.matched

(***************************************************************************)
(* C26                                                                     *)
(***************************************************************************)
IsComment(word) == word # <<>> /\ word[1] = "#"
NoComment(words) == \A i \in 1..Len(words) : ~IsComment(words[i])

\* C26: a line that starts with # never becomes a required, normal, filter
\* or global-filter word and never shows in a group key, so no group is
\* emitted for comments alone.
C26_CommentsIgnored ==
    (fout.op = "load_frequency_words" /\ fout.loaded.raised = "no") =>
        /\ NoComment(fout.loaded.filter_words)
        /\ NoComment(fout.loaded.global_filters)
        /\ \A i \in 1..Len(fout.loaded.groups) :
            /\ NoComment(fout.loaded.groups[i].required)
            /\ NoComment(fout.loaded.groups[i].normal)
            /\ ~Contains(fout.loaded.groups[i].group_key, <<"#">>)

(***************************************************************************)
(* C27                                                                     *)
(***************************************************************************)
\* C27: when the rule file configures no word group, every title of the
\* input is counted in the all-news group, whatever the filter words and
\* global filters are: its count equals total_titles.
C27_AllNewsCountsAll ==
    (fout.op = "count_word_frequency" /\ fout.loaded.groups = <<>>) =>
        /\ DOMAIN fout.stats.word_stats = {AllNews}
        /\ fout.stats.word_stats[AllNews].titles = fin.results
        /\ fout.stats.word_stats[AllNews].count = fout.stats.total_titles

(***************************************************************************)
(* calculate_news_weight.  The weights of the configuration are given in   *)
(* hundredths and the result is the fraction num / den, so the averages    *)
(* over the ranks are exact.                                               *)
(***************************************************************************)
MaxCount == 12
MaxRanks == 2

RECURSIVE SumSeq(_)
SumSeq(s) == IF s = <<>> THEN 0 ELSE Head(s) + SumSeq(Tail(s))

Min(a, b) == IF a < b THEN a ELSE b

frequency_weight_unclamped(count) == count * 10
frequency_weight(count) == Min(count, 10) * 10

\* title_data is [ranks, has_count, count]; weight_config is in hundredths
calculate_news_weight(title_data, rank_threshold, weight_config) ==
    LET ranks == title_data.ranks
        n == Len(ranks)
        count == IF title_data.has_count THEN title_data.count ELSE n
        rank_scores == [i \in 1..n |-> 11 - Min(ranks[i], 10)]
        high_rank_count == Cardinality({i \in 1..n : ranks[i] <= rank_threshold})
    IN  IF ranks = <<>> THEN [num |-> 0, den |-> 1]
        ELSE [num |-> SumSeq(rank_scores) * weight_config.RANK_WEIGHT
                        + frequency_weight(count) * n * weight_config.FREQUENCY_WEIGHT
                        + high_rank_count * 100 * weight_config.HOTNESS_WEIGHT,
              den |-> 100 * n]

WeightArgs ==
    {[op |-> "weight",
      title_data |-> [ranks |-> ranks, has_count |-> h, count |-> count],
      rank_threshold |-> th,
      weight_config |-> w] :
        ranks \in UNION {[1..n -> {1, 5, 12}] : n \in 0..MaxRanks},
        h \in BOOLEAN, count \in 0..MaxCount, th \in {3, 5},
        w \in {[RANK_WEIGHT |-> 40, FREQUENCY_WEIGHT |-> 30, HOTNESS_WEIGHT |-> 30],
               [RANK_WEIGHT |-> 60, FREQUENCY_WEIGHT |-> 0, HOTNESS_WEIGHT |-> 40]}}

InitWeight == BaseInit /\ fin \in WeightArgs /\ fout = NoArgs

CalculateNewsWeight ==
    /\ fin.op = "weight"
    /\ fout = NoArgs
    /\ fout' = [op |-> "calculate_news_weight",
                weight |-> calculate_news_weight(fin.title_data, fin.rank_threshold,
                                                 fin.weight_config)]
    /\ UNCHANGED <<fin, notPure>>

SpecWeight == InitWeight /\ [][CalculateNewsWeight]_vars

(***************************************************************************)
(* C28                                                                     *)
(***************************************************************************)
\* C28: for the same non-empty ranks, threshold and non-negative weights
\* the weight does not decrease when count grows by one, it grows by
\* 10 * FREQUENCY_WEIGHT for a step from a count in 1..9, and it does not
\* change for a step from a count of 10 or more; for empty ranks it is 0.
C28_WeightInCount ==
    (fout.op = "calculate_news_weight" /\ fin.title_data.has_count) =>
        LET w == fout.weight
            next == calculate_news_weight(
                        [fin.title_data EXCEPT !.count = @ + 1],
                        fin.rank_threshold, fin.weight_config)
            count == fin.title_data.count
            n == Len(fin.title_data.ranks)
        IN  IF n = 0 THEN w.num = 0 /\ next.num = 0
            ELSE /\ next.den = w.den
                 /\ next.num >= w.num
                 /\ (1 <= count /\ count < 10) =>
                        next.num - w.num = 10 * fin.weight_config.FREQUENCY_WEIGHT * n
                 /\ count >= 10 => next.num = w.num

C28_Witness ==
    /\ fout.op = "calculate_news_weight"
    /\ fin.title_data.has_count
    /\ fin.title_data.count = 10
    /\ Len(fin.title_data.ranks) = 2
    /\ fin.weight_config.FREQUENCY_WEIGHT > 0

(***************************************************************************)
(* C29                                                                     *)
(***************************************************************************)
\* C29: after the same save_news_data calls a local and a remote backend
\* hold the same rows, and every read returns the same result on both,
\* the rank history of each item included.  get_today_all_data,
\* detect_new_titles and is_first_crawl_today run the same statements in
\* both backends; get_latest_crawl_data is the read that is written twice.
C29_LocalRemoteSameReads ==
    out.op \in {"get_latest_crawl_data", "remote_get_latest_crawl_data"} =>
        remote_get_latest_crawl_data(conn) = get_latest_crawl_data(conn)

(***************************************************************************)
(* Several RemoteStorageBackend objects, one per process, save into the    *)
(* same bucket.  Each has its temp directory (tempfile.mkdtemp) and its    *)
(* _db_connections; the saves run one after the other and every request    *)
(* gets its response.                                                      *)
(***************************************************************************)
\* save_news_data(data) on instance i
InstanceSaveNewsData(i) ==
    /\ quota > 0
    /\ \E data \in Calls(quota) :
        LET me == instances[i]
            gc == IF me.connected
                  THEN [file |-> me.tmp, raised |-> FALSE, reqs |-> <<>>]
                  ELSE get_connection(bucket, me.tmp, "ok", "ok", NoFile)
            db == SaveStatements(gc.file.db, data)
            up == upload_sqlite(bucket, Today, db, "ok", "200")
        IN  /\ quota' = quota - Len(data.items)
            /\ call' = data
            /\ ret' = up.ok
            /\ bucket' = up.bucket
            /\ instances' = [instances EXCEPT ![i] = [tmp |-> DbFile(db), connected |-> TRUE]]
            /\ serial' = SaveStatements(serial, data)
    /\ UNCHANGED <<conn, disk, log, atomic, out, trip, dirVars, pureVars,
                   tmp, connected, reqs, localdir, mcpVars>>

\* cleanup() on instance i: the connection is closed and the temp
\* directory removed
InstanceCleanup(i) ==
    /\ instances[i] # NewInstance
    /\ instances' = [instances EXCEPT ![i] = NewInstance]
    /\ UNCHANGED <<storeVars, trip, dirVars, pureVars, remoteVars, mcpVars, serial>>

InitFleet ==
    /\ conn = EmptyDb
    /\ disk = EmptyDb
    /\ call = NoCall
    /\ ret = TRUE
    /\ log = <<>>
    /\ atomic = EmptyDb
    /\ out = NoOut
    /\ quota = MaxObs
    /\ trip = NoTrip
    /\ RemoteInit(EmptyBucket)
    /\ McpInit
    /\ AuxInit

NextFleet ==
    \E i \in InstanceNames : InstanceSaveNewsData(i) \/ InstanceCleanup(i)

SpecFleet == InitFleet /\ [][NextFleet]_vars

(***************************************************************************)
(* C30                                                                     *)
(***************************************************************************)
\* the rows of news_items by platform and title
ItemKeys(db) ==
    {[platform_id |-> db.news_items[k].platform_id, title |-> db.news_items[k].title] :
        k \in 1..Len(db.news_items)}

\* C30: when several remote backends save for the same day one after the
\* other, after each successful save the object news/<day>.db holds the
\* items of every earlier successful save of any of them.
C30_SerialSavesKeepAll ==
    (call # NoCall /\ ret) =>
        /\ bucket[Today] # NoObject
        /\ ItemKeys(serial) \subseteq ItemKeys(bucket[Today])

(***************************************************************************)
(* Downloads whose requests may fail: pull_recent_days and the download    *)
(* of _get_connection on a bucket that saves have filled.                  *)
(***************************************************************************)
PullRecentDaysFaulty == PullRecent(DownloadOutcomes)
RemoteGetTodayFaulty == RemoteGetToday(DownloadOutcomes)

NextDownload ==
    \/ RemoteSaveNewsDataOk
    \/ RemoteCleanup
    \/ PullRecentDaysFaulty
    \/ RemoteGetTodayFaulty
    \/ Return

SpecDownload == InitPull /\ [][NextDownload]_vars

\* a bucket that earlier runs filled: under each key nothing, an empty
\* day-store or the day-store of one save of one item
InitFrame ==
    /\ conn = EmptyDb
    /\ disk = EmptyDb
    /\ call = NoCall
    /\ ret = TRUE
    /\ log = <<>>
    /\ atomic = EmptyDb
    /\ out = NoOut
    /\ quota = 0
    /\ trip = NoTrip
    /\ \E bkt \in [DateSet -> {NoObject, EmptyDb} \cup
                                {SaveStatements(EmptyDb, d) : d \in Calls(1)}] :
          RemoteInit(bkt)
    /\ McpInit
    /\ AuxInit

\* pull_recent_days alone, again and again on the same local_data_dir
NextFrame ==
    \/ PullRecentDaysFaulty
    \/ Return

SpecFrame == InitFrame /\ [][NextFrame]_vars

(***************************************************************************)
(* C31                                                                     *)
(***************************************************************************)
Complete(file) == file.file \in {"absent", "db"}

\* C31: a download that fails part-way leaves no truncated news.db: every
\* news.db at a local path, in local_data_dir or in the backend's temp
\* directory, is a whole database, so a later call downloads again.
C31_NoPartialFile ==
    /\ \A d \in DateSet : Complete(localdir[d])
    /\ Complete(tmp)

(***************************************************************************)
(* C32                                                                     *)
(***************************************************************************)
RECURSIVE PullConforms(_, _, _, _, _)
\* rounds i .. days - 1 sent the requests rs and turned the directory
\* before into after: nothing for a date that had a file, a HEAD for every
\* other date, a GET only after a HEAD that found the object, a file only
\* from a GET
PullConforms(i, days, rs, before, after) ==
    IF i >= days THEN rs = <<>>
    ELSE LET d == DateBack(i)
         IN IF before[d] # NoFile
            THEN after[d] = before[d] /\ PullConforms(i + 1, days, rs, before, after)
            ELSE /\ rs # <<>>
                 /\ rs[1].op = "HEAD"
                 /\ bucket[d] = NoObject => rs[1].resp # "200"
                 /\ IF rs[1].resp = "200"
                    THEN /\ Len(rs) >= 2
                         /\ rs[2].op = "GET"
                         /\ rs[2].resp = "200" => after[d] = DbFile(bucket[d])
                         /\ PullConforms(i + 1, days, Tail(Tail(rs)), before, after)
                    ELSE /\ after[d] = NoFile
                         /\ PullConforms(i + 1, days, Tail(rs), before, after)

\* C32: pull_recent_days(N) looks at the last N dates only; it sends no
\* request for a date whose local news.db exists and leaves that file, it
\* sends no GET and makes no file for a date whose HEAD reports absent,
\* and it returns the number of dates whose object it downloaded; with
\* N <= 0 it does nothing and returns 0.
C32_PullFrame ==
    (out.op = "pull_recent_days" /\ reqs.by = "pull_recent_days") =>
        LET N == out.days
            considered == {DateBack(i) : i \in 0..(N - 1)}
        IN  /\ \A d \in DateSet \ considered : localdir[d] = out.before[d]
            /\ PullConforms(0, N, reqs.sent, out.before, localdir)
            /\ out.data = Cardinality({k \in 1..Len(reqs.sent) :
                                         reqs.sent[k] = Req("GET", "200")})
            /\ N <= 0 => (reqs.sent = <<>> /\ out.data = 0 /\ localdir = out.before)

\* a pull of two dates that skipped one date for its local file and
\* downloaded the other
C32_Witness ==
    /\ out.op = "pull_recent_days"
    /\ reqs.by = "pull_recent_days"
    /\ out.days = 2
    /\ \E d \in DateSet : out.before[d] # NoFile
    /\ out.data = 1

(***************************************************************************)
(* NewsAnalyzer._send_notification_if_needed with the push window enabled  *)
(* and ONCE_PER_DAY set, notification enabled, a channel configured and    *)
(* content to send.  The push manager's has_pushed_today and record_push   *)
(* are those of the storage backend.                                       *)
(***************************************************************************)
MaxSends == 3

\* what dispatch_all returned: no channel, every channel False, or one True
DispatchResults == {"empty", "all_failed", "any_ok"}

\* the calls so far and the dispatches among them that had a channel
\* succeed, as the last call counted them
Sends == IF dirout.op = "send" THEN dirout.calls ELSE 0
Successes == IF dirout.op = "send" THEN dirout.successes ELSE 0

\* the part of the call after has_pushed_today returned pushed: what was
\* dispatched, whether record_push is called, and the return value
send_outcome(in_range, pushed, results) ==
    IF ~in_range \/ pushed
    THEN [dispatched |-> FALSE, record |-> FALSE, result |-> FALSE]
    ELSE [dispatched |-> TRUE, record |-> results = "any_ok",
          result |-> results # "empty"]

SendResult(o, results) ==
    [op |-> "send", calls |-> Sends + 1, dispatched |-> o.dispatched,
     success |-> o.dispatched /\ results = "any_ok",
     result |-> o.result,
     successes |-> Successes + (IF o.dispatched /\ results = "any_ok" THEN 1 ELSE 0)]

\* _send_notification_if_needed on the local backend
LocalSendNotificationIfNeeded ==
    /\ backend = "local"
    /\ Sends < MaxSends
    /\ \E in_range \in BOOLEAN, results \in DispatchResults, report_type \in ReportTypes :
        LET n == date_folder(TodayDay)
            o == send_outcome(in_range, has_pushed_today(data_dir, TodayDay), results)
            dir == dir_get_connection(data_dir, n)
        IN  /\ data_dir' = IF ~in_range THEN data_dir
                           ELSE IF o.record
                           THEN [dir EXCEPT ![n].push_records =
                                    push_upsert(@, TodayDay, clock, report_type)]
                           ELSE dir
            /\ db_connections' = IF in_range THEN db_connections \cup {n}
                                 ELSE db_connections
            /\ dirout' = SendResult(o, results)
    /\ UNCHANGED <<clock, backend>>
    /\ UNCHANGED <<storeVars, trip, remoteVars, mcpVars, pureVars, fleetVars>>

\* _get_connection of the remote backend st = [tmp, connected, conn]
remote_connect(st, bkt, dl) ==
    IF st.connected THEN [st EXCEPT !.raised = FALSE]
    ELSE LET gc == get_connection(bkt, st.tmp, dl.head, dl.get, dl.broken)
         IN IF gc.raised
            THEN [st EXCEPT !.tmp = gc.file, !.raised = TRUE]
            ELSE [tmp |-> gc.file, connected |-> TRUE, conn |-> gc.file.db,
                  raised |-> FALSE]

\* _send_notification_if_needed on the remote backend: has_pushed_today
\* gives False on every exception; record_push commits to the temp copy
\* and uploads it, and its return value is not looked at
RemoteSend(DL, UL) ==
    /\ backend = "remote"
    /\ Sends < MaxSends
    /\ \E in_range \in BOOLEAN, results \in DispatchResults, report_type \in ReportTypes,
          dl1 \in DL, dl2 \in DL, ul \in UL :
        LET st0 == [tmp |-> tmp, connected |-> connected, conn |-> conn, raised |-> FALSE]
            st1 == IF in_range THEN remote_connect(st0, bucket, dl1) ELSE st0
            pushed == in_range /\ ~st1.raised
                        /\ select_pushed(st1.conn.push_records, TodayDay)
            o == send_outcome(in_range, pushed, results)
            st2 == IF o.record THEN remote_connect(st1, bucket, dl2) ELSE st1
            write == o.record /\ ~st2.raised
            db == [st2.conn EXCEPT
                      !.push_records = push_upsert(@, TodayDay, clock, report_type)]
            up == upload_sqlite(bucket, Today, db, ul.put, ul.verify)
        IN  /\ (st0.connected \/ tmp # NoFile \/ ~in_range) => dl1 = DownloadOk
            /\ (st1.connected \/ st1.tmp # NoFile \/ ~o.record) => dl2 = DownloadOk
            /\ ~write => ul = UploadOk
            /\ tmp' = IF write THEN DbFile(db) ELSE st2.tmp
            /\ connected' = st2.connected
            /\ conn' = IF write THEN db ELSE st2.conn
            /\ disk' = IF write THEN db ELSE IF st2.connected THEN st2.conn ELSE disk
            /\ bucket' = IF write THEN up.bucket ELSE bucket
            /\ dirout' = SendResult(o, results)
    /\ UNCHANGED <<call, ret, log, atomic, out, quota, trip, reqs, localdir, mcpVars,
                   pureVars, fleetVars, data_dir, db_connections, clock, backend>>

RemoteSendNotificationIfNeeded == RemoteSend(DownloadOutcomes, UploadOutcomes)

\* the next run of the day: a new process with a new remote backend
NextRun ==
    /\ backend = "remote"
    /\ connected \/ tmp # NoFile
    /\ conn' = EmptyDb
    /\ disk' = EmptyDb
    /\ tmp' = NoFile
    /\ connected' = FALSE
    /\ UNCHANGED <<call, ret, log, atomic, out, quota, trip, bucket, reqs, localdir,
                   mcpVars, auxVars>>

NextNotify ==
    \/ LocalSendNotificationIfNeeded
    \/ RemoteSendNotificationIfNeeded
    \/ NextRun

SpecNotify == InitDir /\ [][NextNotify]_vars

(***************************************************************************)
(* C33                                                                     *)
(***************************************************************************)
\* what has_pushed_today would return now if its requests get their
\* responses
RecordedToday ==
    IF backend = "local" THEN has_pushed_today(data_dir, TodayDay)
    ELSE IF connected THEN select_pushed(conn.push_records, TodayDay)
    ELSE IF tmp # NoFile
         THEN tmp.file = "db" /\ select_pushed(tmp.db.push_records, TodayDay)
    ELSE bucket[Today] # NoObject /\ select_pushed(bucket[Today].push_records, TodayDay)

\* C33: with the push window enabled and ONCE_PER_DAY set, over the runs
\* of one date at most one dispatch has a channel that succeeds: after
\* such a dispatch the push is recorded and every later call returns false
\* without dispatching; a dispatch whose channels all failed records
\* nothing.
C33_OncePerDay ==
    /\ [](dirout.op = "send" => dirout.successes <= 1)
    /\ [][(dirout'.op = "send" /\ dirout' # dirout) =>
            /\ dirout'.success => RecordedToday'
            /\ RecordedToday => (~dirout'.dispatched /\ ~dirout'.result)
            /\ (dirout'.dispatched /\ ~dirout'.success) => ~RecordedToday']_vars


(***************************************************************************)
(* read_all_titles_for_date and its TTL cache                              *)
(***************************************************************************)
\* "ttl = 900 if is_today else 3600"
ttl_today == 900
ttl_other == 3600
MaxQuarters == 4
\* the clock readings at which the server is called: one second before and
\* right at each multiple of the shorter TTL
Readings == {q * ttl_today - 1 : q \in 1..MaxQuarters} \cup
            {q * ttl_today : q \in 1..MaxQuarters}

\* what the TXT snapshots of a date hold: nothing, or one parsed result
TxtResult == [txt_titles |-> "txt"]
TxtResults == {None, TxtResult}

\* CacheService.get with "<=" in place of "<"
cache_get_inclusive(c, key, ttl, t) ==
    IF c[key] = NoEntry THEN [value |-> None, cache |-> c]
    ELSE IF t - c[key].timestamp <= ttl
         THEN [value |-> c[key].value, cache |-> c]
         ELSE [value |-> None, cache |-> [c EXCEPT ![key] = NoEntry]]
\* CacheService.get: the value while "time.time() - timestamp < ttl", else
\* the entry is deleted and None returned
cache_get(c, key, ttl, t) ==
    IF c[key] = NoEntry THEN [value |-> None, cache |-> c]
    ELSE IF t - c[key].timestamp < ttl
         THEN [value |-> c[key].value, cache |-> c]
         ELSE [value |-> None, cache |-> [c EXCEPT ![key] = NoEntry]]

\* _read_from_sqlite on <data_dir>/<date>/news.db
sqlite_result_of(file) ==
    IF file.file = "db" THEN read_from_sqlite(file.db) ELSE None

\* read_all_titles_for_date(date): the cache, then SQLite, then TXT, the
\* result of a source stored under the key; DataNotFoundError otherwise
read_all_titles_for_date(c, date, file, txt_result, t) ==
    LET key == cache_key(date)
        ttl == IF date = Today THEN ttl_today ELSE ttl_other
        cached == cache_get(c, key, ttl, t)
        sqlite_result == sqlite_result_of(file)
        Set(v) == [cached.cache EXCEPT ![key] = Entry(v, t)]
    IN IF cached.value # None
       THEN [source |-> "cache", result |-> cached.value, cache |-> cached.cache]
       ELSE IF sqlite_result # None
       THEN [source |-> "sqlite", result |-> sqlite_result,
             cache |-> Set(sqlite_result)]
       ELSE IF txt_result # None
       THEN [source |-> "txt", result |-> txt_result, cache |-> Set(txt_result)]
       ELSE [source |-> "DataNotFoundError", result |-> None,
             cache |-> cached.cache]

ReadAllTitlesCached ==
    /\ out = NoOut
    /\ \E date \in DateSet, txt_result \in TxtResults :
          LET r == read_all_titles_for_date(cache, date, localdir[date],
                                            txt_result, now)
          IN  /\ cache' = r.cache
              /\ out' = [op |-> "read_all_titles_cached", date |-> date,
                         txt |-> txt_result, source |-> r.source,
                         result |-> r.result]
    /\ UNCHANGED <<conn, disk, call, ret, log, atomic, quota>>
    /\ UNCHANGED <<trip, auxVars, remoteVars, lock, now, clog, registry, threads>>

\* time passes between two calls
Wait ==
    /\ \E t \in Readings : t > now /\ now' = t
    /\ UNCHANGED <<storeVars, trip, auxVars, remoteVars, cache, lock, clog,
                   registry, threads>>

\* the crawler's process saves one more batch into the day-file of today
CrawlerSaves ==
    /\ quota < MaxObs
    /\ \E data \in Calls(1) :
          localdir' = [localdir EXCEPT ![Today] =
              DbFile(SaveStatements(IF localdir[Today].file = "db"
                                    THEN localdir[Today].db ELSE EmptyDb, data))]
    /\ quota' = quota + 1
    /\ UNCHANGED <<conn, disk, call, ret, log, atomic, out>>
    /\ UNCHANGED <<trip, auxVars, mcpVars, bucket, tmp, connected, reqs>>

\* the data directory as earlier runs left it: today no file or an empty
\* day-file, an earlier date no file or the day-file of one save of one item
InitTitles ==
    /\ conn = EmptyDb
    /\ disk = EmptyDb
    /\ call = NoCall
    /\ ret = TRUE
    /\ log = <<>>
    /\ atomic = EmptyDb
    /\ out = NoOut
    /\ quota = MaxObs - 1
    /\ trip = NoTrip
    /\ bucket = EmptyBucket
    /\ tmp = NoFile
    /\ connected = FALSE
    /\ reqs = NoReqs
    /\ \E file \in {NoFile, DbFile(EmptyDb)},
          past \in {NoFile} \cup {DbFile(SaveStatements(EmptyDb, d)) :
                                      d \in {c \in Calls(1) : c.crawl_time[1] = 0}} :
          localdir = [d \in DateSet |-> IF d = Today THEN file ELSE past]
    /\ McpInit
    /\ AuxInit

NextTitles ==
    \/ ReadAllTitlesCached
    \/ Wait
    \/ CrawlerSaves
    \/ Return

SpecTitles == InitTitles /\ [][NextTitles]_vars

\* C34: a call of read_all_titles_for_date returns the entry under
\* read_all_titles:<date>:<platform-key> without reading storage exactly when
\* the entry is younger than 900 s (date is today) or 3600 s (other dates);
\* otherwise it reads SQLite, then TXT, and stores what it found under the
\* key with the time of the call; when neither source has data it raises
\* DataNotFoundError and the key holds no entry
C34_TtlWindow ==
    [][(out = NoOut /\ out'.op = "read_all_titles_cached") =>
          LET date == out'.date
              key == cache_key(date)
              limit == IF date = Today THEN 900 ELSE 3600
              fresh == cache[key] # NoEntry /\ now - cache[key].timestamp < limit
              sqlite_result == sqlite_result_of(localdir[date])
          IN  /\ fresh => /\ out'.source = "cache"
                          /\ out'.result = cache[key].value
                          /\ cache' = cache
              /\ (~fresh /\ sqlite_result # None) =>
                          /\ out'.source = "sqlite"
                          /\ out'.result = sqlite_result
                          /\ cache'[key] = Entry(sqlite_result, now)
              /\ (~fresh /\ sqlite_result = None /\ out'.txt # None) =>
                          /\ out'.source = "txt"
                          /\ out'.result = out'.txt
                          /\ cache'[key] = Entry(out'.txt, now)
              /\ (~fresh /\ sqlite_result = None /\ out'.txt = None) =>
                          /\ out'.source = "DataNotFoundError"
                          /\ cache'[key] = NoEntry
              /\ \A k \in CacheKeys \ {key} : cache'[k] = cache[k]]_vars

\* a read of today at clock reading 900 went to SQLite and stored its result
\* with that time, while the entry of an earlier date stored at 0 is kept
C34_Witness ==
    /\ out.op = "read_all_titles_cached"
    /\ out.date = Today
    /\ out.source = "sqlite"
    /\ now = ttl_today
    /\ cache[cache_key(Today)] = Entry(out.result, ttl_today)
    /\ \E d \in DateSet \ {Today} :
          /\ cache[cache_key(d)] # NoEntry
          /\ cache[cache_key(d)].timestamp = 0


(***************************************************************************)
(* is_first_crawl_today                                                    *)
(***************************************************************************)
\* is_first_crawl_today with "count < 1" in place of "count <= 1"
is_first_crawl_today_strict(db_exists, db) ==
    IF ~db_exists THEN TRUE ELSE Cardinality(db.crawl_records) < 1
\* is_first_crawl_today: True when the day-file does not exist, else
\* "SELECT COUNT(*) FROM crawl_records" and "return count <= 1"
is_first_crawl_today(db_exists, db) ==
    IF ~db_exists THEN TRUE ELSE Cardinality(db.crawl_records) <= 1

\* the day-file exists from the first save on: _get_connection made it
IsFirstCrawlToday ==
    /\ out = NoOut
    /\ out' = [op |-> "is_first_crawl_today",
               data |-> is_first_crawl_today(log # <<>>, conn)]
    /\ UNCHANGED <<conn, disk, call, ret, log, atomic, quota>>
    /\ UNCHANGED svcVars

NextFirst ==
    \/ SaveNewsData
    \/ IsFirstCrawlToday
    \/ Return

SpecFirst == Init /\ [][NextFirst]_vars

\* the crawl times of the batches saved so far
SavedCrawlTimes == {log[i].crawl_time : i \in 1..Len(log)}

EffectiveGroups == IF fout.loaded.groups = <<>> THEN <<AllNewsGroup>>
                   ELSE fout.loaded.groups

\* the required words are all substrings of the lowercased title, and one of
\* the normal words, if there are any, is
Claims(group, title) ==
    /\ \A i \in 1..Len(group.required) :
            Contains(Lower(title), Lower(group.required[i]))
    /\ \/ group.normal = <<>>
       \/ \E i \in 1..Len(group.normal) :
            Contains(Lower(title), Lower(group.normal[i]))

RECURSIVE SumCounts(_, _)
SumCounts(word_stats, keys) ==
    IF keys = {} THEN 0
    ELSE LET key == CHOOSE k \in keys : TRUE
         IN word_stats[key].count + SumCounts(word_stats, keys \ {key})

\* C36: count_word_frequency counts every title of the input under at most
\* one group key, the key of the first group in declared order that claims
\* it; the counts of all groups sum to at most total_titles; a title that no
\* group claims or that matches_word_groups rejects is counted nowhere
C36_FirstGroupOnly ==
    fout.op = "count_word_frequency" =>
        LET word_stats == fout.stats.word_stats
            groups == EffectiveGroups
            keys_of(title) == {key \in DOMAIN word_stats :
                                    title \in word_stats[key].titles}
        IN  /\ \A title \in fin.results :
                /\ Cardinality(keys_of(title)) <= 1
                /\ \A key \in keys_of(title) :
                      \E i \in 1..Len(groups) :
                          /\ groups[i].group_key = key
                          /\ Claims(groups[i], title)
                          /\ \A j \in 1..(i - 1) : ~Claims(groups[j], title)
                /\ title \notin fout.matched => keys_of(title) = {}
                /\ (\A i \in 1..Len(groups) : ~Claims(groups[i], title))
                      => keys_of(title) = {}
            /\ \A key \in DOMAIN word_stats :
                    /\ word_stats[key].titles \subseteq fin.results
                    /\ word_stats[key].count = Cardinality(word_stats[key].titles)
            /\ SumCounts(word_stats, DOMAIN word_stats) <= fout.stats.total_titles

\* a title that two groups with different keys claim was counted, and a
\* title of the same input was counted under no key
C36_Witness ==
    /\ fout.op = "count_word_frequency"
    /\ \E title \in fin.results, i, j \in 1..Len(fout.loaded.groups) :
          /\ i < j
          /\ fout.loaded.groups[i].group_key # fout.loaded.groups[j].group_key
          /\ Claims(fout.loaded.groups[i], title)
          /\ Claims(fout.loaded.groups[j], title)
          /\ \E key \in DOMAIN fout.stats.word_stats :
                title \in fout.stats.word_stats[key].titles
    /\ \E title \in fin.results :
          \A key \in DOMAIN fout.stats.word_stats :
                title \notin fout.stats.word_stats[key].titles


(***************************************************************************)
(* count_word_frequency: the report modes and the is_new mark              *)
(***************************************************************************)
\* a dict {source_id: {title: ...}} is a function from the source ids it
\* holds to the titles under each; Python's "if d" is false for None and {}
Truthy(d) == d # None /\ DOMAIN d # {}
Pairs(d) == IF d = None THEN {}
            ELSE {<<source_id, title>> : source_id \in DOMAIN d, title \in NewsTitles}
                    \cap UNION {{<<source_id, title>> : title \in d[source_id]} :
                                    source_id \in DOMAIN d}

ModeTitles == {Title1, Title4}
Modes == {"daily", "incremental", "current"}
\* last_time: the empty string or a crawl time
LastTimes == {<<>>} \cup CrawlTimes
\* the dicts handed in as results and new_titles
TitleDicts ==
    UNION {[S -> SUBSET ModeTitles] : S \in SUBSET Platforms}
\* title_info: of each title the last_time, under every source
TitleInfos ==
    {None} \cup {[source_id \in Platforms |-> info] : info \in [ModeTitles -> LastTimes]}
TeslaGroup == [required |-> <<>>, normal |-> << <<"tesila">> >>,
               group_key |-> <<"tesila">>]

\* the incremental branch taking results also when the crawl is not the first
results_to_process_all(mode, is_first_today, results, new_titles, title_info) ==
    IF mode = "incremental"
    THEN [results |-> results, all_news_are_new |-> TRUE]
    ELSE [results |-> results, all_news_are_new |-> FALSE]
\* "if mode == 'incremental' ... elif mode == 'current' ... else": the dict
\* that is processed and all_news_are_new
results_to_process(mode, is_first_today, results, new_titles, title_info) ==
    IF mode = "incremental"
    THEN IF is_first_today
         THEN [results |-> results, all_news_are_new |-> TRUE]
         ELSE [results |-> IF Truthy(new_titles) THEN new_titles ELSE <<>>,
               all_news_are_new |-> TRUE]
    ELSE IF mode = "current"
    THEN IF Truthy(title_info)
         THEN LET times == {title_info[s][t] : s \in DOMAIN title_info,
                                               t \in ModeTitles} \ {<<>>}
                  latest_time == CHOOSE x \in times :
                                    \A y \in times : y = x \/ StrLess(y, x)
                  filtered(s) == {t \in results[s] :
                                    title_info[s][t] = latest_time}
              IN IF times # {}
                 THEN [results |-> [s \in {x \in DOMAIN results :
                                              /\ x \in DOMAIN title_info
                                              /\ filtered(x) # {}} |-> filtered(s)],
                       all_news_are_new |-> FALSE]
                 ELSE [results |-> results, all_news_are_new |-> FALSE]
         ELSE [results |-> results, all_news_are_new |-> FALSE]
    ELSE [results |-> results, all_news_are_new |-> FALSE]

\* "is_new = True" when all_news_are_new, else "title in
\* new_titles[source_id]" when new_titles has the source, else False
is_new_of(all_news_are_new, new_titles, source_id, title) ==
    IF all_news_are_new THEN TRUE
    ELSE IF Truthy(new_titles) /\ source_id \in DOMAIN new_titles
    THEN title \in new_titles[source_id]
    ELSE FALSE

\* the entries appended to word_stats[...]["titles"] and total_titles
emitted_titles(a) ==
    LET todo == results_to_process(a.mode, a.is_first_today, a.results,
                                   a.new_titles, a.title_info)
        word_groups == IF a.word_groups = <<>> THEN <<AllNewsGroup>>
                       ELSE a.word_groups
    IN  [processed |-> Pairs(todo.results),
         total_titles |-> Cardinality(Pairs(todo.results)),
         emitted |-> {[source_id |-> p[1], title |-> p[2],
                       is_new |-> is_new_of(todo.all_news_are_new,
                                            a.new_titles, p[1], p[2])] :
                        p \in {q \in Pairs(todo.results) :
                                 matches_word_groups(q[2], word_groups, <<>>, <<>>)}}]

ModeArgs ==
    [op : {"modes"}, mode : Modes, is_first_today : BOOLEAN,
     results : TitleDicts, new_titles : {None} \cup TitleDicts,
     title_info : TitleInfos, word_groups : {<<>>, <<TeslaGroup>>}]

InitModes == BaseInit /\ fin \in ModeArgs /\ fout = NoArgs

CountByMode ==
    /\ fin.op = "modes"
    /\ fout = NoArgs
    /\ fout' = [op |-> "count_by_mode"] @@ emitted_titles(fin)
    /\ UNCHANGED <<fin, notPure>>

SpecModes == InitModes /\ [][CountByMode]_vars

\* C37: in incremental mode all items of results are processed when the
\* crawl is the first of the day and exactly the items of new_titles when it
\* is not (none when new_titles is empty), and every emitted title is marked
\* is_new; in daily and current mode an emitted title is marked is_new
\* exactly when new_titles holds it under its platform
C37_ModesAndIsNew ==
    fout.op = "count_by_mode" =>
        LET InNew(e) == /\ fin.new_titles # None
                        /\ <<e.source_id, e.title>> \in Pairs(fin.new_titles)
        IN  /\ fin.mode = "incremental" =>
                /\ fin.is_first_today => fout.processed = Pairs(fin.results)
                /\ ~fin.is_first_today => fout.processed = Pairs(fin.new_titles)
                /\ (~fin.is_first_today /\ Pairs(fin.new_titles) = {}) =>
                        (fout.emitted = {} /\ fout.total_titles = 0)
                /\ \A e \in fout.emitted : e.is_new
            /\ fin.mode \in {"daily", "current"} =>
                \A e \in fout.emitted : e.is_new <=> InNew(e)
            /\ \A e \in fout.emitted : <<e.source_id, e.title>> \in fout.processed
            /\ fout.total_titles = Cardinality(fout.processed)

\* an incremental run that is not the first of the day emitted a title of
\* new_titles that results does not hold, and nothing else
C37_Witness ==
    /\ fout.op = "count_by_mode"
    /\ fin.mode = "incremental"
    /\ ~fin.is_first_today
    /\ Pairs(fin.results) # {}
    /\ fout.emitted # {}
    /\ \A e \in fout.emitted : <<e.source_id, e.title>> \notin Pairs(fin.results)


(***************************************************************************)
(* count_word_frequency: the stats entry of one group                      *)
(***************************************************************************)
MaxTitles == 3
DefaultWeights == [RANK_WEIGHT |-> 40, FREQUENCY_WEIGHT |-> 30, HOTNESS_WEIGHT |-> 30]
DefaultThreshold == 3

\* min(x["ranks"]) if x["ranks"] else 999
RECURSIVE MinOf(_)
MinOf(ranks) ==
    IF Len(ranks) = 1 THEN ranks[1] ELSE Min(ranks[1], MinOf(Tail(ranks)))
min_rank(x) == IF x.ranks = <<>> THEN 999 ELSE MinOf(x.ranks)

weight_of(x) == calculate_news_weight(x, DefaultThreshold, DefaultWeights)

\* the sort key (-weight, min(ranks), -count) of a is below that of b
KeyLess(a, b) ==
    LET wa == weight_of(a)
        wb == weight_of(b)
    IN  \/ wa.num * wb.den > wb.num * wa.den
        \/ /\ wa.num * wb.den = wb.num * wa.den
           /\ \/ min_rank(a) < min_rank(b)
              \/ min_rank(a) = min_rank(b) /\ a.count > b.count

\* sorted(): a stable sort, each title put behind those whose key is not
\* above its own
RECURSIVE Insert(_, _)
Insert(x, s) ==
    IF s = <<>> THEN <<x>>
    ELSE IF KeyLess(x, Head(s)) THEN <<x>> \o s
    ELSE <<Head(s)>> \o Insert(x, Tail(s))
RECURSIVE sorted(_)
sorted(s) ==
    IF s = <<>> THEN <<>>
    ELSE Insert(s[Len(s)], sorted(SubSeq(s, 1, Len(s) - 1)))

\* the limit with the global value taken before the group's own
group_limit_global_first(max_count, max_news_per_keyword) ==
    IF max_news_per_keyword = 0 THEN max_count ELSE max_news_per_keyword
\* "group_max_count = group_key_to_max_count.get(group_key, 0)", replaced by
\* max_news_per_keyword when it is 0
group_limit(max_count, max_news_per_keyword) ==
    IF max_count = 0 THEN max_news_per_keyword ELSE max_count

\* round(count / total_titles * 100, 2), in hundredths of a percent
percentage_of(count, total_titles) ==
    IF total_titles > 0
    THEN (2 * 10000 * count + total_titles) \div (2 * total_titles)
    ELSE 0

\* the entry appended to stats for one key of word_stats
stats_entry(data, max_count, max_news_per_keyword, total_titles) ==
    LET sorted_titles == sorted(data.titles)
        group_max_count == group_limit(max_count, max_news_per_keyword)
    IN  [count |-> data.count,
         titles |-> IF group_max_count > 0
                    THEN SubSeq(sorted_titles, 1, Min(group_max_count, Len(sorted_titles)))
                    ELSE sorted_titles,
         percentage |-> percentage_of(data.count, total_titles)]

\* the entries of a group's title list: ranks, crawl count and the place in
\* which the title was matched
TitleEntries(n) ==
    {s \in [1..n -> [ranks : {<<>>, <<1>>, <<10>>, <<12>>}, count : {10, 11},
                     has_count : {TRUE}, at : 1..n]] :
        \A i \in 1..n : s[i].at = i}

StatsArgs ==
    {[op |-> "stats", data |-> [count |-> Len(titles), titles |-> titles],
      max_count |-> max_count, max_news_per_keyword |-> max_news_per_keyword,
      total_titles |-> Len(titles) + more] :
        titles \in UNION {TitleEntries(n) : n \in 0..MaxTitles},
        max_count \in 0..2, max_news_per_keyword \in -1..2, more \in 0..1}

InitStats == BaseInit /\ fin \in StatsArgs /\ fout = NoArgs

StatsEntry ==
    /\ fin.op = "stats"
    /\ fout = NoArgs
    /\ fout' = [op |-> "stats_entry"] @@
               stats_entry(fin.data, fin.max_count, fin.max_news_per_keyword,
                           fin.total_titles)
    /\ UNCHANGED <<fin, notPure>>

SpecStats == InitStats /\ [][StatsEntry]_vars

\* the orders of the matched titles in which no title stands before one with
\* a lower key
SortedOrders(titles) ==
    LET n == Len(titles)
    IN  {[i \in 1..n |-> titles[p[i]]] :
            p \in {q \in [1..n -> 1..n] :
                     /\ \A i, j \in 1..n : q[i] = q[j] => i = j
                     /\ \A i, j \in 1..n :
                            i < j => ~KeyLess(titles[q[j]], titles[q[i]])}}

\* C38: the titles of an emitted group are a prefix of the matched titles
\* sorted by (-weight, min(ranks), -crawl_count): of the length max_count
\* when the group's max_count is above 0, else of max_news_per_keyword when
\* that is above 0, else the whole list; count and percentage are those of
\* all matched titles
C38_SortedPrefix ==
    fout.op = "stats_entry" =>
        LET n == Len(fin.data.titles)
            limit == IF fin.max_count > 0 THEN fin.max_count
                     ELSE IF fin.max_news_per_keyword > 0
                          THEN fin.max_news_per_keyword
                          ELSE n
            kept == IF limit < n THEN limit ELSE n
        IN  /\ Len(fout.titles) = kept
            /\ \E order \in SortedOrders(fin.data.titles) :
                    fout.titles = SubSeq(order, 1, kept)
            /\ fout.count = n
            /\ fin.total_titles > 0 =>
                    /\ 2 * (fout.percentage * fin.total_titles - 10000 * n)
                            <= fin.total_titles
                    /\ 2 * (10000 * n - fout.percentage * fin.total_titles)
                            < fin.total_titles

\* three matched titles in an order that the sort changes, cut to the
\* group's own limit of 2 although the global limit is 1, the count still 3
C38_Witness ==
    /\ fout.op = "stats_entry"
    /\ Len(fin.data.titles) = 3
    /\ fin.max_count = 2
    /\ fin.max_news_per_keyword = 1
    /\ Len(fout.titles) = 2
    /\ fout.titles # SubSeq(fin.data.titles, 1, 2)
    /\ fout.count = 3
    /\ \E i, j \in 1..3 :
          /\ weight_of(fin.data.titles[i]) = weight_of(fin.data.titles[j])
          /\ min_rank(fin.data.titles[i]) # min_rank(fin.data.titles[j])

=============================================================================
